---- MODULE Spec2Model ----
(***************************************************************************)
(* A model of the semantic analyzer of the TypeScript checker              *)
(* (typescript/checker): assignment narrowing over the scope stack,        *)
(* overload grouping in class bodies, the import phase of a module and     *)
(* the loader with its module cache.                                       *)
(*                                                                         *)
(* The module holds several specifications over one set of variables;      *)
(* each specification moves its own group of variables and leaves the      *)
(* others at their initial value.                                          *)
(*   Spec        scope stack, variable declarations and assignments        *)
(*   SpecClass   Analyzer::validate_class_members                          *)
(*   SpecImport  Visit<Vec<T>>: import pre-pass, parallel loads, merge     *)
(*   SpecCache   module cache shared by concurrently running loads         *)
(***************************************************************************)
EXTENDS Integers, Sequences, FiniteSets, TLC

VARIABLES
    \* ---- Spec: Analyzer.scope / Analyzer.info.errors ----
    scopes,      \* the scope chain, root first; scopes[d] is Scope.vars of depth d
    errors,      \* Analyzer.info.errors
    declared,    \* per scope: name -> the type annotation the binding was declared with
    saved,       \* per scope: what every name resolved to when the scope was entered
    last,        \* the statement visited last
    \* ---- SpecClass: locals of validate_class_members ----
    body,        \* Class.body: the members in source order
    declare,     \* the `declare` argument (ambient class)
    idx,         \* position of the `for m in &c.body` loop
    name,        \* `name`: key of the pending bodyless run, or NoName
    spans,       \* `spans`: key spans of the pending bodyless run
    cerrors,     \* `errors`, and after the call info.errors
    cpc,         \* "loop" while iterating, "done" after the trailing flush
    \* ---- SpecImport: Visit<Vec<T>> for Analyzer ----
    items,            \* the module items that import: declarations and require calls
    imports,          \* `imports`: the ImportInfo list of the pre-pass
    results,          \* slot i: what loader.load returned for imports[i], or Pending
    order,            \* the order in which the parallel loads completed
    merged,           \* number of import results merged so far
    resolved_imports, \* Analyzer.resolved_imports
    errored_imports,  \* Analyzer.errored_imports
    uses,             \* the identifier uses visited in the module body
    ipc,              \* "find", "load", "merge", "body"
    \* ---- SpecCache: the module cache of the Checker ----
    graph,       \* path -> the paths the module at that path imports
    cache,       \* path -> Absent, the pending marker, or the published info
    tasks,       \* the load_module calls made so far: import chain -> status
    analyzed,    \* path -> number of analyses of the module started
    diags,       \* the cyclic-import diagnostics recorded
    \* ---- SpecExport: Analyzer.info.exports and the export visitors ----
    exports,          \* Analyzer.info.exports: name -> exported type
    types,            \* Scope.types of the module scope: name -> registered type
    pending_exports,  \* Analyzer.pending_exports
    panicked,         \* an assertion of the analyzer failed: the analysis is aborted
    nstmt,            \* number of export statements visited
    debug_assertions, \* whether the build checks debug_assert!
    epc,              \* "body" while visiting items, "done" after handle_pending_exports
    \* ---- SpecExpr: type_of, access_property, fix_type, infer_return_type ----
    call,        \* the call made last: the function and its arguments
    ret,         \* what the call returned
    \* ---- SpecThis: the class visitors and Scope.this ----
    scope_this,  \* Analyzer.scope.this: the this-type slot, NoTy for None
    visiting,    \* the class visits in progress, outermost first
    traversal    \* "Visit" (mod.rs) or "Fold" (class.rs): the visitors of the build

scopeVars == <<scopes, errors, declared, saved, last>>
classVars == <<body, declare, idx, name, spans, cerrors, cpc>>
importVars == <<items, imports, results, order, merged, resolved_imports,
                errored_imports, uses, ipc>>
cacheVars == <<graph, cache, tasks, analyzed, diags>>
exportVars == <<exports, types, pending_exports, panicked, nstmt,
                debug_assertions, epc>>
exprVars == <<call, ret>>
thisVars == <<scope_this, visiting, traversal>>
moreVars == <<exportVars, exprVars, thisVars>>
vars == <<scopeVars, classVars, importVars, cacheVars, moreVars>>

(***************************************************************************)
(* Types (ty::Type), spans dropped: structural equality ignores them.      *)
(***************************************************************************)
Kw(k) == [tag |-> "Keyword", kind |-> k]
LitNum(n) == [tag |-> "Lit", base |-> "number", num |-> n]
LitStr(s) == [tag |-> "Lit", base |-> "string", str |-> s]
Union(ts) == [tag |-> "Union", types |-> ts]

TAny == Kw("any")
TNumber == Kw("number")
TString == Kw("string")
TStrOrNum == Union(<<TString, TNumber>>)

\* Option<Type>::None of VarInfo.ty
NoTy == [tag |-> "None"]

is_any(t) == t = TAny

\* Type::assign_to on types without unions
AssignBase(src, to) ==
    \/ is_any(src)
    \/ is_any(to)
    \/ src = Kw("never")
    \/ src = to
    \/ src.tag = "Lit" /\ to.tag = "Keyword" /\ src.base = to.kind

\* Type::assign_to: TRUE when `src` is assignable to `to` (no error returned)
assign_to(src, to) ==
    LET Members(t) == IF t.tag = "Union"
                      THEN {t.types[i] : i \in 1..Len(t.types)}
                      ELSE {t}
    IN \A s \in Members(src) : \E t \in Members(to) : AssignBase(s, t)

(***************************************************************************)
(* Spec: the scope stack, variable declarations and assignments.           *)
(***************************************************************************)
MaxErrors == 2
MaxDepth == 2

Names == {"x"}
VarKinds == {"let"}

\* the annotations a declaration may carry, and the types type_of gives a
\* right-hand side or an initializer
AnnTypes == {TAny, TNumber, TStrOrNum}
RhsTypes == {LitNum(1), LitStr("a"), TAny}

NoStmt == [op |-> "none"]

\* the result of a lookup that finds no binding
NoVar == [kind |-> "none", ty |-> NoTy, initialized |-> FALSE, copied |-> FALSE]

\* Scope::search_parent: the binding of the nearest ancestor of the scope at
\* depth d that binds sym
RECURSIVE search_parent(_, _, _)
search_parent(ss, d, sym) ==
    IF d <= 1 THEN NoVar
    ELSE IF sym \in DOMAIN ss[d - 1] THEN ss[d - 1][sym]
    ELSE search_parent(ss, d - 1, sym)

\* Analyzer::find_var: the binding sym resolves to from the scope at depth d
find_var(ss, d, sym) ==
    IF d = 0 THEN NoVar
    ELSE IF sym \in DOMAIN ss[d] THEN ss[d][sym]
    ELSE search_parent(ss, d, sym)

\* what every name resolves to in the chain ss
Resolve(ss) == [n \in Names |-> find_var(ss, Len(ss), n)]

\* Scope::declare_var: insert the binding into the scope's vars
declare_var(scope, kind, sym, ty, initialized) ==
    [n \in (DOMAIN scope) \cup {sym} |->
        IF n = sym
        THEN [kind |-> kind, ty |-> ty, initialized |-> initialized, copied |-> FALSE]
        ELSE scope[n]]

\* try_assign, binding found in the current scope: the errors of
\* `ty.assign_to(&var_ty)`
AssignErrors(var_info, ty) ==
    IF var_info.ty # NoTy /\ ~assign_to(ty, var_info.ty)
    THEN <<"AssignFailed">>
    ELSE <<>>

\* AssignedTy without the assignability check
AssignedTyUnchecked(var_info, ty) ==
    IF var_info.ty = NoTy \/ is_any(var_info.ty) THEN var_info.ty ELSE ty

\* try_assign, binding found in the current scope: var_info.ty afterwards
AssignedTy(var_info, ty) ==
    LET var_ty == IF var_info.ty # NoTy
                  THEN IF assign_to(ty, var_info.ty) THEN ty ELSE NoTy
                  ELSE NoTy
    IN IF var_ty # NoTy /\ (var_info.ty = NoTy \/ ~is_any(var_info.ty))
       THEN var_ty
       ELSE var_info.ty

\* CopiedVarInfo that takes the refined type also for an `any` binding
CopiedVarInfoRefined(var_info, ty) ==
    [var_info EXCEPT !.ty = ty, !.copied = TRUE]

\* CopiedVarInfo that leaves the `copied` flag as the ancestor has it
CopiedVarInfoNoFlag(var_info, ty) ==
    [var_info EXCEPT
        !.ty = IF var_info.ty # NoTy /\ is_any(var_info.ty) THEN TAny ELSE ty]

\* try_assign, binding found in an ancestor: the VarInfo copied into the
\* current scope
CopiedVarInfo(var_info, ty) ==
    [var_info EXCEPT
        !.ty = IF var_info.ty # NoTy /\ is_any(var_info.ty) THEN TAny ELSE ty,
        !.copied = TRUE]

Top == scopes[Len(scopes)]

SetTop(scope) == [scopes EXCEPT ![Len(scopes)] = scope]

\* Analyzer::try_assign(lhs, ty)
try_assign(lhs, sym, ty) ==
    IF lhs = "Member"
    THEN UNCHANGED <<scopes, errors>>
    ELSE IF sym \in DOMAIN Top
    THEN /\ errors' = errors \o AssignErrors(Top[sym], ty)
         /\ scopes' = SetTop([Top EXCEPT ![sym].ty = AssignedTy(Top[sym], ty)])
    ELSE LET var_info == search_parent(scopes, Len(scopes), sym)
         IN IF var_info # NoVar
            THEN /\ scopes' = SetTop(
                        [n \in (DOMAIN Top) \cup {sym} |->
                            IF n = sym THEN CopiedVarInfo(var_info, ty) ELSE Top[n]])
                 /\ UNCHANGED errors
            ELSE /\ errors' = Append(errors, "UndefinedSymbol")
                 /\ UNCHANGED scopes

\* Visit<AssignExpr>: type the right-hand side, then try_assign for `=`
VisitAssignExpr ==
    /\ Len(errors) < MaxErrors
    /\ \E lhs \in {"Ident", "Member"}, sym \in Names, op \in {"=", "+="},
          rhs \in RhsTypes \cup {NoTy} :
        IF rhs = NoTy
        THEN \* type_of or expand_type failed
             /\ errors' = Append(errors, "TypeOfFailed")
             /\ last' = [op |-> "skip"]
             /\ UNCHANGED scopes
        ELSE IF op = "="
        THEN /\ try_assign(lhs, sym, rhs)
             /\ last' = IF lhs = "Member" THEN [op |-> "skip"]
                        ELSE [op |-> "assign", sym |-> sym, rhs |-> rhs]
        ELSE /\ last' = [op |-> "skip"]
             /\ UNCHANGED <<scopes, errors>>
    /\ UNCHANGED <<declared, saved>>

\* Visit<VarDecl>, one declarator `kind sym: ann = init`, not ambient; ann and
\* init may each be absent (NoTy)
VisitVarDecl ==
    /\ Len(errors) < MaxErrors
    /\ \E kind \in VarKinds, sym \in Names \ DOMAIN Top,
          ann \in AnnTypes \cup {NoTy}, init \in RhsTypes \cup {NoTy} :
        /\ last' = [op |-> "decl", sym |-> sym]
        /\ declared' = [declared EXCEPT ![Len(scopes)] =
                           [n \in (DOMAIN @) \cup {sym} |->
                               IF n = sym THEN ann ELSE @[n]]]
        /\ IF init # NoTy
           THEN IF ann # NoTy
                THEN \* declare_complex_vars with the annotation; when the
                     \* initializer is not assignable the error is pushed and
                     \* declare_vars declares the pattern as annotated
                     /\ scopes' = SetTop(declare_var(Top, kind, sym, ann, TRUE))
                     /\ errors' = IF assign_to(init, ann) THEN errors
                                  ELSE Append(errors, "AssignFailed")
                ELSE \* infer type from value
                     /\ scopes' = SetTop(declare_var(Top, kind, sym, init, TRUE))
                     /\ UNCHANGED errors
           ELSE /\ scopes' = SetTop(declare_var(Top, kind, sym, ann, FALSE))
                /\ UNCHANGED errors
    /\ UNCHANGED saved

\* Visit<BlockStmt>, entry of with_child: push a block scope
EnterBlock ==
    /\ Len(scopes) < MaxDepth
    /\ scopes' = Append(scopes, <<>>)
    /\ declared' = Append(declared, <<>>)
    /\ saved' = Append(saved, Resolve(scopes))
    /\ last' = [op |-> "enter"]
    /\ UNCHANGED errors

\* Visit<BlockStmt>, return of with_child: drop the block scope
ExitBlock ==
    /\ Len(scopes) > 1
    /\ scopes' = SubSeq(scopes, 1, Len(scopes) - 1)
    /\ declared' = SubSeq(declared, 1, Len(declared) - 1)
    /\ saved' = SubSeq(saved, 1, Len(saved) - 1)
    /\ last' = [op |-> "exit", popped |-> Top]
    /\ UNCHANGED errors

(***************************************************************************)
(* Claims about assignment narrowing (checked under Spec).                 *)
(***************************************************************************)
\* the step just taken is a direct assignment `sym = e` whose target is bound
\* in the current scope
AssignsCurrent == last'.op = "assign" /\ last'.sym \in DOMAIN Top

\* the step just taken is a direct assignment whose target is bound only in
\* an ancestor scope
AssignsAncestor ==
    /\ last'.op = "assign"
    /\ last'.sym \notin DOMAIN Top
    /\ search_parent(scopes, Len(scopes), last'.sym) # NoVar

\* C1: for a binding of the current scope declared with a type T (other than
\* `any`, which is never narrowed), every direct assignment whose right-hand
\* side is assignable to T adds no error and sets the binding's type to the
\* right-hand-side type, whatever was assigned before.
C1_AssignJudgedAgainstDeclared ==
    [][(/\ AssignsCurrent
        /\ declared[Len(scopes)][last'.sym] \notin {NoTy, TAny}
        /\ assign_to(last'.rhs, declared[Len(scopes)][last'.sym]))
       => /\ errors' = errors
          /\ scopes'[Len(scopes)][last'.sym].ty = last'.rhs]_vars

\* C2: a direct assignment to a binding of the current scope whose right-hand
\* side is not assignable to the binding's type adds exactly one
\* not-assignable error and leaves the scope chain, the binding's type
\* included, unchanged.
C2_NotAssignableKeepsType ==
    [][(/\ AssignsCurrent
        /\ Top[last'.sym].ty # NoTy
        /\ ~assign_to(last'.rhs, Top[last'.sym].ty))
       => /\ errors' = Append(errors, "AssignFailed")
          /\ scopes' = scopes]_vars

\* C2 witness: `let x = 1; x = 'a';` has been analyzed: one error, x still 1
C2_Witness ==
    /\ last = [op |-> "assign", sym |-> "x", rhs |-> LitStr("a")]
    /\ Len(scopes) = 1
    /\ "x" \in DOMAIN scopes[1]
    /\ scopes[1]["x"].ty = LitNum(1)
    /\ declared[1]["x"] = NoTy
    /\ errors = <<"AssignFailed">>

\* C3: an assignment to an identifier bound only in an ancestor scope inserts
\* into the current scope a binding marked `copied` that carries the refined
\* type (the right-hand side's, or `any` when the ancestor's binding is
\* `any`) and the ancestor's kind and initialized flag; every ancestor scope
\* is left as it was; and when a scope is exited every identifier resolves
\* again to the binding it resolved to when the scope was entered.
C3_CopyLeavesAncestor ==
    /\ [][AssignsAncestor =>
            LET p == search_parent(scopes, Len(scopes), last'.sym)
                c == scopes'[Len(scopes)][last'.sym]
            IN /\ Len(scopes') = Len(scopes)
               /\ c.copied
               /\ c.ty = IF is_any(p.ty) THEN TAny ELSE last'.rhs
               /\ c.kind = p.kind
               /\ c.initialized = p.initialized
               /\ SubSeq(scopes', 1, Len(scopes) - 1)
                    = SubSeq(scopes, 1, Len(scopes) - 1)]_vars
    /\ [][Len(scopes') < Len(scopes) =>
            Resolve(scopes') = saved[Len(saved)]]_vars

\* C3 witness: a block that narrowed an outer binding through a copy has been
\* exited, and the identifier has the outer binding's type again
C3_Witness ==
    /\ last.op = "exit"
    /\ \E sym \in DOMAIN last.popped :
        /\ last.popped[sym].copied
        /\ last.popped[sym].ty # find_var(scopes, Len(scopes), sym).ty
        /\ find_var(scopes, Len(scopes), sym) = saved[Len(saved)][sym]
           \/ Len(scopes) = 1

\* the import phase of a module that imports nothing, already over
ImportIdle ==
    /\ items = <<>>
    /\ imports = <<>>
    /\ results = <<>>
    /\ order = <<>>
    /\ merged = 0
    /\ resolved_imports = <<>>
    /\ errored_imports = {}
    /\ uses = <<>>
    /\ ipc = "body"

Paths == {"m", "a", "b"}

Absent == [st |-> "absent"]

\* a cache no analyzer has touched
CacheIdle ==
    /\ graph = [p \in Paths |-> {}]
    /\ cache = [p \in Paths |-> Absent]
    /\ tasks = <<>>
    /\ analyzed = [p \in Paths |-> 0]
    /\ diags = {}

\* no export statement visited
ExportIdle ==
    /\ exports = <<>>
    /\ types = <<>>
    /\ pending_exports = <<>>
    /\ panicked = FALSE
    /\ nstmt = 0
    /\ debug_assertions = FALSE
    /\ epc = "body"

NoCall == [fn |-> "none"]
NoRet == [res |-> "none"]

\* no call made
ExprIdle == call = NoCall /\ ret = NoRet

\* no class visited
ThisIdle == scope_this = NoTy /\ visiting = <<>> /\ traversal = "Visit"

MoreIdle == ExportIdle /\ ExprIdle /\ ThisIdle

ScopeInit ==
    /\ scopes = << <<>> >>
    /\ errors = <<>>
    /\ declared = << <<>> >>
    /\ saved = << [n \in Names |-> NoVar] >>
    /\ last = NoStmt

(***************************************************************************)
(* SpecClass: overload grouping, Analyzer::validate_class_members.         *)
(***************************************************************************)
MaxMembers == 3

\* PropName
KeyIdent(sym) == [tag |-> "Ident", sym |-> sym]
KeyStr(sym) == [tag |-> "Str", sym |-> sym]
KeyNum(n) == [tag |-> "Num", value |-> n]
KeyComputed == [tag |-> "Computed"]
NoName == [tag |-> "NoName"]

\* ClassMember: methods and constructors carry a key and may lack a body;
\* every other member (properties, index signatures) is skipped by the loop
Method(key, has_body) == [kind |-> "Method", key |-> key, has_body |-> has_body]
Constructor(has_body) ==
    [kind |-> "Constructor", key |-> KeyIdent("constructor"), has_body |-> has_body]
ClassProp == [kind |-> "ClassProp", key |-> KeyIdent("p"), has_body |-> FALSE]

MethodKeys == {KeyIdent("foo"), KeyStr("1"), KeyNum(1), KeyComputed}

Members ==
    {Method(k, b) : k \in MethodKeys, b \in BOOLEAN}
        \cup {Constructor(b) : b \in BOOLEAN}
        \cup {ClassProp}

\* f64::to_string of a numeric key (one decimal digit)
NumToString(n) == <<"0", "1", "2", "3", "4", "5", "6", "7", "8", "9">>[n + 1]

\* the `check!` macro inside is_prop_name_eq: "true" / "false" when it
\* returns, "fall" when control falls out of the macro
check_prop_name(l, r) ==
    IF l.tag \in {"Ident", "Str"}
    THEN IF r.tag \in {"Ident", "Str"}
         THEN IF l.sym = r.sym THEN "true" ELSE "false"
         ELSE IF r.tag = "Num"
         THEN IF l.sym = NumToString(r.value) THEN "true" ELSE "false"
         ELSE "false"
    ELSE IF l.tag = "Computed" THEN "false"
    ELSE "fall"

\* is_prop_name_eq(l, r)
is_prop_name_eq(l, r) ==
    IF check_prop_name(l, r) # "fall" THEN check_prop_name(l, r) = "true"
    ELSE IF check_prop_name(r, l) # "fall" THEN check_prop_name(r, l) = "true"
    ELSE FALSE

TS2391(span) == [code |-> "TS2391", span |-> span]
TS2389(span) == [code |-> "TS2389", span |-> span]

\* `for span in mem::replace(&mut spans, vec![]) { errors.push(E { span }) }`
FlushSpans(sp, code) == [i \in 1..Len(sp) |-> [code |-> code, span |-> sp[i]]]

\* the trailing flush of validate_class_members: the errors raised for the
\* signatures still pending when the class body ends
TrailingErrors(sp) == FlushSpans(sp, "TS2391")

\* the `check!` macro of the member loop applied to member m at position i:
\* the values of (name, spans, errors) after it
check_member(m, i, nm, sp, errs) ==
    IF m.key.tag = "Computed"
    THEN [name |-> nm, spans |-> sp, errors |-> errs]
    ELSE IF ~m.has_body
    THEN IF nm # NoName /\ ~is_prop_name_eq(nm, m.key)
         THEN [name |-> m.key, spans |-> <<i>>,
               errors |-> errs \o FlushSpans(sp, "TS2391")]
         ELSE [name |-> m.key, spans |-> Append(sp, i), errors |-> errs]
    ELSE IF nm = NoName \/ is_prop_name_eq(nm, m.key)
    THEN [name |-> NoName, spans |-> <<>>, errors |-> errs]
    ELSE IF is_prop_name_eq(nm, KeyIdent("constructor"))
    THEN [name |-> NoName, spans |-> <<>>,
          errors |-> errs \o FlushSpans(sp, "TS2391")]
    ELSE IF is_prop_name_eq(m.key, KeyIdent("constructor"))
    THEN [name |-> NoName, spans |-> <<>>,
          errors |-> errs \o FlushSpans(sp, "TS2389")]
    ELSE [name |-> NoName, spans |-> <<>>, errors |-> Append(errs, TS2389(i))]

\* one iteration of `for m in &c.body`
ClassMemberStep ==
    /\ cpc = "loop"
    /\ idx <= Len(body)
    /\ LET m == body[idx]
           r == IF declare \/ m.kind \notin {"Method", "Constructor"}
                THEN [name |-> name, spans |-> spans, errors |-> cerrors]
                ELSE check_member(m, idx, name, spans, cerrors)
       IN /\ name' = r.name
          /\ spans' = r.spans
          /\ cerrors' = r.errors
    /\ idx' = idx + 1
    /\ UNCHANGED <<body, declare, cpc>>

\* after the loop: flush the pending signatures, extend info.errors
ClassFinish ==
    /\ cpc = "loop"
    /\ idx > Len(body)
    /\ IF ~declare
       THEN /\ cerrors' = cerrors \o TrailingErrors(spans)
            /\ spans' = <<>>
       ELSE UNCHANGED <<cerrors, spans>>
    /\ cpc' = "done"
    /\ UNCHANGED <<body, declare, idx, name>>

ClassIdle ==
    /\ body = <<>>
    /\ declare = FALSE
    /\ idx = 1
    /\ name = NoName
    /\ spans = <<>>
    /\ cerrors = <<>>
    /\ cpc = "done"

ClassInit ==
    /\ body \in UNION {[1..n -> Members] : n \in 0..MaxMembers}
    /\ declare \in BOOLEAN
    /\ idx = 1
    /\ name = NoName
    /\ spans = <<>>
    /\ cerrors = <<>>
    /\ cpc = "loop"

InitClass == ScopeInit /\ ClassInit /\ ImportIdle /\ CacheIdle /\ MoreIdle

NextClass ==
    \/ ClassMemberStep /\ UNCHANGED <<scopeVars, importVars, cacheVars, moreVars>>
    \/ ClassFinish /\ UNCHANGED <<scopeVars, importVars, cacheVars, moreVars>>

SpecClass == InitClass /\ [][NextClass]_vars

(***************************************************************************)
(* Claims about overload grouping (checked under SpecClass).               *)
(***************************************************************************)
\* the name a non-computed key denotes
NameOf(key) == IF key.tag = "Num" THEN NumToString(key.value) ELSE key.sym

IsSignature(i) ==
    /\ body[i].kind \in {"Method", "Constructor"}
    /\ body[i].key.tag # "Computed"
    /\ ~body[i].has_body

\* members i..j are bodyless declarations of one non-computed name
IsRun(i, j) ==
    /\ i <= j
    /\ \A k \in i..j : IsSignature(k) /\ NameOf(body[k].key) = NameOf(body[i].key)

\* members i..j-1 are such a run and member j is a body-bearing declaration
\* of the same name
IsGroup(i, j) ==
    /\ i < j
    /\ IsRun(i, j - 1)
    /\ body[j].kind \in {"Method", "Constructor"}
    /\ body[j].key.tag # "Computed"
    /\ body[j].has_body
    /\ NameOf(body[j].key) = NameOf(body[i].key)

ErrorsIn(i, j) ==
    {k \in 1..Len(cerrors) : cerrors[k].span \in i..j}

\* C4: in a non-ambient class, a run of bodyless declarations of one
\* non-computed name immediately followed by a body-bearing declaration of
\* that name raises no TS2391 and no TS2389 at any member of the group, and
\* once the body has been visited no signature is pending.
C4_OverloadGroupNoError ==
    ~declare =>
        \A i, j \in 1..Len(body) :
            IsGroup(i, j) =>
                /\ ErrorsIn(i, j) = {}
                /\ (cpc = "loop" /\ idx = j + 1) => (name = NoName /\ spans = <<>>)

\* C5: a non-ambient class whose body ends with a run of n >= 1 bodyless
\* declarations of one non-computed name has, when validation is done,
\* exactly one error for that run: a TS2391 at the last signature.
C5_TrailingRunOneError ==
    (cpc = "done" /\ ~declare) =>
        \A i \in 1..Len(body) :
            (IsRun(i, Len(body)) /\ (i = 1 \/ ~IsRun(i - 1, Len(body)))) =>
                {cerrors[k] : k \in ErrorsIn(i, Len(body))} = {TS2391(Len(body))}
                /\ Cardinality(ErrorsIn(i, Len(body))) = 1

Init == ScopeInit /\ ClassIdle /\ ImportIdle /\ CacheIdle /\ MoreIdle

Next ==
    \/ VisitVarDecl /\ UNCHANGED <<classVars, importVars, cacheVars, moreVars>>
    \/ VisitAssignExpr /\ UNCHANGED <<classVars, importVars, cacheVars, moreVars>>
    \/ EnterBlock /\ UNCHANGED <<classVars, importVars, cacheVars, moreVars>>
    \/ ExitBlock /\ UNCHANGED <<classVars, importVars, cacheVars, moreVars>>

Spec == Init /\ [][Next]_vars

(***************************************************************************)
(* SpecImport: the import phase of Visit<Vec<T>> and Load for Checker.     *)
(***************************************************************************)
MaxImports == 2
MaxUses == 1

\* ImportSpecifier
SpecDefault(local) == [tag |-> "Default", local |-> local, imported |-> "default"]
SpecNamed(local) == [tag |-> "Specific", local |-> local, imported |-> local]
SpecNamespace(local) == [tag |-> "Namespace", local |-> local, imported |-> "*"]

ImportDecl(specifiers, src) ==
    [kind |-> "Import", specifiers |-> specifiers, src |-> src]
Require(src) == [kind |-> "Require", specifiers |-> <<>>, src |-> src]

\* the export tables of the modules the resolver finds; every other source
\* fails to resolve
ModuleExports ==
    [a |-> [X |-> TNumber, Y |-> TString],
     b |-> [X |-> TString, default |-> TAny]]

\* the error resolver.resolve returns for a source it cannot resolve
ResolveError(src) ==
    [kind |-> "ModuleLoadFailed", src |-> src,
     errors |-> IF src = "broken" THEN <<[kind |-> "ResolveFailed", src |-> src]>>
                ELSE <<>>]

\* the importing items a module may hold
ImportItems ==
    { ImportDecl(<<SpecNamed("X")>>, "a"),
      ImportDecl(<<SpecNamed("X"), SpecNamed("Z")>>, "a"),
      ImportDecl(<<SpecNamed("X")>>, "b"),
      ImportDecl(<<SpecDefault("D")>>, "b"),
      ImportDecl(<<SpecDefault("D"), SpecNamespace("ns")>>, "b"),
      ImportDecl(<<SpecNamed("Y")>>, "missing"),
      ImportDecl(<<SpecNamespace("ns")>>, "missing"),
      ImportDecl(<<SpecDefault("D"), SpecNamespace("ns")>>, "broken"),
      Require("a") }

UseNames == {"X", "Y", "Z", "D", "ns"}

Pending == [ok |-> FALSE, pending |-> TRUE]
Ok(map) == [ok |-> TRUE, map |-> map]
Err(err) == [ok |-> FALSE, pending |-> FALSE, err |-> err]

\* Specifier {local, export} of a default or named import specifier
Specifier(s) == [local |-> s.local, export |-> s.imported]

\* Visit<ImportDecl> / Visit<CallExpr> for ImportFinder: the ImportInfo
\* pushed for the item at position `span`, as a list of zero or one entries
ImportFinder(item, span) ==
    IF item.kind = "Require"
    THEN <<[span |-> span, all |-> TRUE, items |-> <<>>, src |-> item.src]>>
    ELSE LET named == SelectSeq(item.specifiers, LAMBDA sp : sp.tag # "Namespace")
             its == [i \in 1..Len(named) |-> Specifier(named[i])]
             all == \E i \in 1..Len(item.specifiers) :
                        item.specifiers[i].tag = "Namespace"
         IN IF its # <<>>
            THEN <<[span |-> span, all |-> all, items |-> its, src |-> item.src]>>
            ELSE <<>>

\* `items.iter().for_each(|item| item.visit_with(&mut ImportFinder {..}))`
RECURSIVE FindImports(_, _)
FindImports(its, k) ==
    IF k > Len(its) THEN <<>>
    ELSE ImportFinder(its[k], k) \o FindImports(its, k + 1)

\* Load::load that returns the items it found and drops the missing ones
LoadFoundOnly(import) ==
    IF import.src \notin DOMAIN ModuleExports
    THEN Err(ResolveError(import.src))
    ELSE LET exported == ModuleExports[import.src]
             found == {i \in 1..Len(import.items) :
                          import.items[i].export \in DOMAIN exported}
         IN IF import.all THEN Ok(exported)
            ELSE Ok([sym \in {import.items[i].export : i \in found} |-> exported[sym]])

\* impl Load for Checker: load(base, import).  `sym` is the name the item
\* asks the module for; the entry is inserted under the same `sym`.
Load(import) ==
    IF import.src \notin DOMAIN ModuleExports
    THEN Err(ResolveError(import.src))
    ELSE LET exported == ModuleExports[import.src]
             missing == SelectSeq(import.items,
                                  LAMBDA it : it.export \notin DOMAIN exported)
             found == {i \in 1..Len(import.items) :
                          import.items[i].export \in DOMAIN exported}
         IN IF import.all THEN Ok(exported)
            ELSE IF missing = <<>>
            THEN Ok([sym \in {import.items[i].export : i \in found} |-> exported[sym]])
            ELSE Err([kind |-> "NoSuchExport",
                      items |-> [i \in 1..Len(missing) |-> missing[i].export]])

\* import_results in the order the loads completed
ImportResultsByCompletion == [k \in 1..Len(order) |-> results[order[k]]]

\* `imports.par_iter().map(..).collect::<Vec<_>>()`: the results in the
\* order of `imports`
ImportResults == results

\* FxHashMap::extend
Extend(old, new) ==
    [n \in (DOMAIN old) \cup (DOMAIN new) |->
        IF n \in DOMAIN new THEN new[n] ELSE old[n]]

\* the locals of import.items
ItemLocals(import) == {import.items[i].local : i \in 1..Len(import.items)}

\* the pre-pass: collect the ImportInfo of every item
FindStep ==
    /\ ipc = "find"
    /\ imports' = FindImports(items, 1)
    /\ results' = [i \in 1..Len(imports') |-> Pending]
    /\ ipc' = "load"
    /\ UNCHANGED <<items, order, merged, resolved_imports, errored_imports,
                   uses, errors>>

\* one of the parallel loader.load calls returns
LoadComplete(i) ==
    /\ ipc = "load"
    /\ results[i] = Pending
    /\ results' = [results EXCEPT ![i] = Load(imports[i])]
    /\ order' = Append(order, i)
    /\ UNCHANGED <<items, imports, merged, resolved_imports, errored_imports,
                   uses, errors, ipc>>

\* collect() returns once every load has returned
LoadJoin ==
    /\ ipc = "load"
    /\ \A i \in 1..Len(results) : results[i] # Pending
    /\ ipc' = "merge"
    /\ UNCHANGED <<items, imports, results, order, merged, resolved_imports,
                   errored_imports, uses, errors>>

\* one iteration of `for res in import_results`
MergeStep ==
    /\ ipc = "merge"
    /\ merged < Len(imports)
    /\ LET res == ImportResults[merged + 1]
           import == imports[merged + 1]
       IN IF res.ok
          THEN /\ resolved_imports' = Extend(resolved_imports, res.map)
               /\ UNCHANGED <<errored_imports, errors>>
          ELSE /\ errors' =
                    IF res.err.kind = "ModuleLoadFailed"
                    THEN Append(errors \o res.err.errors,
                                [res.err EXCEPT !.errors = <<>>])
                    ELSE Append(errors, res.err)
               /\ errored_imports' = errored_imports \cup ItemLocals(import)
               /\ UNCHANGED resolved_imports
    /\ merged' = merged + 1
    /\ UNCHANGED <<items, imports, results, order, uses, ipc>>

\* `items.visit_children(self)` starts once the results are merged
MergeDone ==
    /\ ipc = "merge"
    /\ merged = Len(imports)
    /\ ipc' = "body"
    /\ UNCHANGED <<items, imports, results, order, merged, resolved_imports,
                   errored_imports, uses, errors>>

\* Analyzer::find_type: a name of a failed import is `any`; otherwise the
\* type registered under the name in the scope
find_type(sym) ==
    IF sym \in errored_imports THEN TAny
    ELSE IF sym \in DOMAIN types THEN types[sym]
    ELSE NoTy

\* Analyzer::type_of for Expr::Ident (other than `undefined`); NoTy stands for
\* Err(UndefinedSymbol)
type_of_ident(sym) ==
    IF sym \in DOMAIN resolved_imports THEN resolved_imports[sym]
    ELSE IF find_type(sym) # NoTy THEN find_type(sym)
    ELSE IF find_var(scopes, Len(scopes), sym).ty # NoTy
    THEN find_var(scopes, Len(scopes), sym).ty
    ELSE IF find_var(scopes, Len(scopes), sym) # NoVar THEN TAny
    ELSE NoTy

\* a statement of the body whose expression is the identifier sym
\* (Visit<VarDecl> typing its initializer): an Err of type_of is pushed
UseIdent(sym) ==
    /\ ipc = "body"
    /\ items # <<>>
    /\ Len(uses) < MaxUses
    /\ uses' = Append(uses, [sym |-> sym, ty |-> type_of_ident(sym)])
    /\ errors' = IF type_of_ident(sym) = NoTy
                 THEN Append(errors, [kind |-> "UndefinedSymbol", sym |-> sym])
                 ELSE errors
    /\ UNCHANGED <<items, imports, results, order, merged, resolved_imports,
                   errored_imports, ipc>>

\* a statement `let sym: boolean;` of the body, ahead of the uses
\* (Visit<VarDecl>, declarator without initializer)
BodyVarDecl(sym) ==
    /\ ipc = "body"
    /\ items # <<>>
    /\ uses = <<>>
    /\ sym \notin DOMAIN Top
    /\ scopes' = SetTop(declare_var(Top, "let", sym, Kw("boolean"), FALSE))
    /\ UNCHANGED <<items, imports, results, order, merged, resolved_imports,
                   errored_imports, uses, ipc, errors>>

ImportInit ==
    /\ items \in UNION {[1..n -> ImportItems] : n \in 1..MaxImports}
    /\ imports = <<>>
    /\ results = <<>>
    /\ order = <<>>
    /\ merged = 0
    /\ resolved_imports = <<>>
    /\ errored_imports = {}
    /\ uses = <<>>
    /\ ipc = "find"

InitImport == ScopeInit /\ ClassIdle /\ ImportInit /\ CacheIdle /\ MoreIdle

NextImport ==
    \/ FindStep /\ UNCHANGED <<scopes, declared, saved, last, classVars, cacheVars, moreVars>>
    \/ (\E i \in 1..Len(results) : LoadComplete(i))
            /\ UNCHANGED <<scopes, declared, saved, last, classVars, cacheVars, moreVars>>
    \/ LoadJoin /\ UNCHANGED <<scopes, declared, saved, last, classVars, cacheVars, moreVars>>
    \/ MergeStep /\ UNCHANGED <<scopes, declared, saved, last, classVars, cacheVars, moreVars>>
    \/ MergeDone /\ UNCHANGED <<scopes, declared, saved, last, classVars, cacheVars, moreVars>>
    \/ (\E sym \in UseNames : UseIdent(sym))
            /\ UNCHANGED <<scopes, declared, saved, last, classVars, cacheVars, moreVars>>
    \/ (\E sym \in {"X", "ns"} : BodyVarDecl(sym))
            /\ UNCHANGED <<declared, saved, last, classVars, cacheVars, moreVars>>

SpecImport == InitImport /\ [][NextImport]_vars

(***************************************************************************)
(* Claims about the import phase and the loader (checked under SpecImport).*)
(***************************************************************************)
\* the state of (resolved_imports, errored_imports, errors) after the results
\* of the first k imports were merged one after the other in source order
RECURSIVE MergeInOrder(_, _)
MergeInOrder(imps, k) ==
    IF k = 0
    THEN [resolved |-> <<>>, errored |-> {}, errors |-> <<>>]
    ELSE LET prev == MergeInOrder(imps, k - 1)
             res == Load(imps[k])
         IN IF res.ok
            THEN [prev EXCEPT !.resolved = Extend(@, res.map)]
            ELSE [resolved |-> prev.resolved,
                  errored |-> prev.errored \cup ItemLocals(imps[k]),
                  errors |-> IF res.err.kind = "ModuleLoadFailed"
                             THEN Append(prev.errors \o res.err.errors,
                                         [res.err EXCEPT !.errors = <<>>])
                             ELSE Append(prev.errors, res.err)]

DeclLocals(item) == {item.specifiers[i].local : i \in 1..Len(item.specifiers)}

\* the import declarations that were loaded and whose module failed to load
FailedDecls ==
    {k \in 1..Len(items) :
        /\ items[k].kind = "Import"
        /\ ImportFinder(items[k], k) # <<>>
        /\ items[k].src \notin DOMAIN ModuleExports}

\* C9: when the import phase is over, every import declaration whose module
\* failed to load has exactly one module-load-failed error, every local name
\* it binds (and no other import binds) is typed `any`, and no use of such a
\* name has raised an error.
C9_FailedImportIsAny ==
    ipc = "body" =>
        \A k \in FailedDecls :
            /\ Cardinality({e \in 1..Len(errors) :
                    errors[e].kind = "ModuleLoadFailed"
                        /\ errors[e].src = items[k].src})
                 = Cardinality({j \in 1..Len(imports) : imports[j].src = items[k].src})
            /\ \A n \in DeclLocals(items[k]) :
                (\A j \in 1..Len(items) : j # k => n \notin DeclLocals(items[j]))
                    => /\ type_of_ident(n) = TAny
                       /\ \A u \in 1..Len(uses) :
                            uses[u].sym = n => uses[u].ty = TAny

\* C10 as claimed: a load with all = false returns every requested item the
\* target module exports and records one no-such-export entry for each
\* requested item it does not export; a load with all = true returns every
\* export.
C10_LoadFoundAndMissing ==
    \A i \in 1..Len(results) :
        (results[i] # Pending /\ imports[i].src \in DOMAIN ModuleExports) =>
            LET exported == ModuleExports[imports[i].src]
                its == imports[i].items
            IN IF imports[i].all
               THEN results[i].ok /\ results[i].map = exported
               ELSE \A k \in 1..Len(its) :
                      IF its[k].export \in DOMAIN exported
                      THEN /\ results[i].ok
                           /\ its[k].export \in DOMAIN results[i].map
                           /\ results[i].map[its[k].export] = exported[its[k].export]
                      ELSE /\ ~results[i].ok
                           /\ results[i].err.kind = "NoSuchExport"
                           /\ Cardinality({e \in 1..Len(results[i].err.items) :
                                results[i].err.items[e] = its[k].export}) = 1

\* C10 as the code has it: a load with all = false returns exactly the
\* requested items when the target module exports all of them, and otherwise
\* returns no item but one NoSuchExport error holding one entry for each
\* requested item the module does not export; a load with all = true returns
\* every export.
C10_LoadAllOrError ==
    \A i \in 1..Len(results) :
        (results[i] # Pending /\ imports[i].src \in DOMAIN ModuleExports) =>
            LET exported == ModuleExports[imports[i].src]
                its == imports[i].items
                missing == {k \in 1..Len(its) : its[k].export \notin DOMAIN exported}
            IN IF imports[i].all
               THEN results[i].ok /\ results[i].map = exported
               ELSE IF missing = {}
               THEN /\ results[i].ok
                    /\ DOMAIN results[i].map = {its[k].export : k \in 1..Len(its)}
                    /\ \A k \in 1..Len(its) :
                         results[i].map[its[k].export] = exported[its[k].export]
               ELSE /\ ~results[i].ok
                    /\ results[i].err.kind = "NoSuchExport"
                    /\ Len(results[i].err.items) = Cardinality(missing)
                    /\ \A k \in missing :
                         Cardinality({e \in 1..Len(results[i].err.items) :
                            results[i].err.items[e] = its[k].export}) = 1

\* C10 witness: a load that asked for an exported and for a missing item has
\* returned
C10_Witness ==
    \E i \in 1..Len(results) :
        /\ results[i] # Pending
        /\ ~imports[i].all
        /\ imports[i].src \in DOMAIN ModuleExports
        /\ \E k, m \in 1..Len(imports[i].items) :
            /\ imports[i].items[k].export \in DOMAIN ModuleExports[imports[i].src]
            /\ imports[i].items[m].export \notin DOMAIN ModuleExports[imports[i].src]
        /\ ~results[i].ok

(***************************************************************************)
(* SpecCache: the module cache (path -> analyzed module info) shared by    *)
(* the concurrently running loads of Visit<Vec<T>>.  A task is one         *)
(* load_module call, named by its import chain: <<m, a, b>> is the request *)
(* for b made while a is analyzed for the analysis of m.                   *)
(***************************************************************************)
Last(t) == t[Len(t)]
Front(t) == SubSeq(t, 1, Len(t) - 1)
OnChain(p, t) == \E i \in 1..Len(t) - 1 : t[i] = p

\* the pending marker installed by task t, the info published by it, and the
\* placeholder `any` module
Marker(t) == [st |-> "pending", by |-> t]
Published(t) == [st |-> "done", by |-> t]
Placeholder(p) == [st |-> "any", path |-> p]

\* a task: its position, the module info it returned, and whether it had to
\* block on a marker
Task(st, got) == [st |-> st, got |-> got, waited |-> FALSE]

\* the requests the analysis of path p by task t makes, all at once
\* (`imports.par_iter()`)
Spawn(t) == [c \in {Append(t, q) : q \in graph[Last(t)]} |-> Task("request", Absent)]

\* load_module(path) reaching the cache without looking at the marker: the
\* module is analyzed by every requester that finds no published info
RequestUnmarked(t) ==
    /\ t \in DOMAIN tasks
    /\ tasks[t].st = "request"
    /\ LET p == Last(t)
       IN IF cache[p].st = "done"
          THEN /\ tasks' = [tasks EXCEPT ![t] = Task("returned", cache[p])]
               /\ UNCHANGED <<cache, analyzed, diags>>
          ELSE /\ cache' = [cache EXCEPT ![p] = Marker(t)]
               /\ analyzed' = [analyzed EXCEPT ![p] = @ + 1]
               /\ tasks' = Extend([tasks EXCEPT ![t].st = "analyzing"], Spawn(t))
               /\ UNCHANGED diags
    /\ UNCHANGED graph

\* load_module(path) reaching the cache
Request(t) ==
    /\ t \in DOMAIN tasks
    /\ tasks[t].st = "request"
    /\ LET p == Last(t)
       IN CASE cache[p].st = "absent" ->
                 \* first requester: install the pending marker and analyze
                 /\ cache' = [cache EXCEPT ![p] = Marker(t)]
                 /\ analyzed' = [analyzed EXCEPT ![p] = @ + 1]
                 /\ tasks' = Extend([tasks EXCEPT ![t].st = "analyzing"], Spawn(t))
                 /\ UNCHANGED diags
            [] cache[p].st = "pending" /\ OnChain(p, t) ->
                 \* cyclic import: placeholder `any` module, with a diagnostic
                 /\ tasks' = [tasks EXCEPT ![t] = Task("placeholder", Placeholder(p))]
                 /\ diags' = diags \cup {[kind |-> "CyclicImport", at |-> t]}
                 /\ UNCHANGED <<cache, analyzed>>
            [] cache[p].st = "pending" /\ ~OnChain(p, t) ->
                 \* block on the marker
                 /\ tasks' = [tasks EXCEPT ![t].st = "blocked"]
                 /\ UNCHANGED <<cache, analyzed, diags>>
            [] cache[p].st = "done" ->
                 /\ tasks' = [tasks EXCEPT ![t] = Task("returned", cache[p])]
                 /\ UNCHANGED <<cache, analyzed, diags>>
    /\ UNCHANGED graph

\* a requester blocked on the marker resumes once the result is published
Wake(t) ==
    /\ t \in DOMAIN tasks
    /\ tasks[t].st = "blocked"
    /\ cache[Last(t)].st = "done"
    /\ tasks' = [tasks EXCEPT ![t] =
                    [st |-> "returned", got |-> cache[Last(t)], waited |-> TRUE]]
    /\ UNCHANGED <<graph, cache, analyzed, diags>>

\* the analysis of a module ends once each of its loads has returned; the
\* result replaces the marker
Publish(t) ==
    /\ t \in DOMAIN tasks
    /\ tasks[t].st = "analyzing"
    /\ \A q \in graph[Last(t)] :
          tasks[Append(t, q)].st \in {"returned", "placeholder"}
    /\ cache' = [cache EXCEPT ![Last(t)] = Published(t)]
    /\ tasks' = [tasks EXCEPT ![t] = Task("returned", Published(t))]
    /\ UNCHANGED <<graph, analyzed, diags>>

\* the chains a task can have: simple paths from the entry module, and those
\* extended by one more path
RECURSIVE ChainsOfLen(_)
ChainsOfLen(n) ==
    IF n = 1 THEN {<<"m">>}
    ELSE {Append(c, q) : c \in ChainsOfLen(n - 1), q \in Paths}

Chains == UNION {ChainsOfLen(n) : n \in 1..(Cardinality(Paths) + 1)}

\* the driver checks the entry module m of some import graph
CacheInit ==
    /\ graph \in [Paths -> SUBSET Paths]
    /\ cache = [p \in Paths |-> Absent]
    /\ tasks = [c \in {<<"m">>} |-> Task("request", Absent)]
    /\ analyzed = [p \in Paths |-> 0]
    /\ diags = {}

InitCache == ScopeInit /\ ClassIdle /\ ImportIdle /\ CacheInit /\ MoreIdle

NextCache ==
    \/ (\E t \in Chains : Request(t)) /\ UNCHANGED <<scopeVars, classVars, importVars, moreVars>>
    \/ (\E t \in Chains : Wake(t)) /\ UNCHANGED <<scopeVars, classVars, importVars, moreVars>>
    \/ (\E t \in Chains : Publish(t)) /\ UNCHANGED <<scopeVars, classVars, importVars, moreVars>>

SpecCache == InitCache /\ [][NextCache]_vars

(***************************************************************************)
(* Claims about the module cache (checked under SpecCache).                *)
(***************************************************************************)
Finished(t) == tasks[t].st \in {"returned", "placeholder"}

\* C7 as claimed: each path is analyzed at most once, and every requester of
\* a path that has come back holds the module info published for the path.
C7_EveryRequesterGetsPublished ==
    /\ \A p \in Paths : analyzed[p] <= 1
    /\ \A t \in DOMAIN tasks :
        Finished(t) =>
            cache[Last(t)].st = "done" /\ tasks[t].got = cache[Last(t)]

\* C7, amended: each path is analyzed at most once, by the requester that
\* installed its marker; a later requester whose import chain does not hold
\* the path waits on the marker and comes back with the published info only
\* once it is published; a later requester whose import chain holds the path
\* comes back with the placeholder `any` module instead.
C7_SingleAnalyzerPerPath ==
    /\ \A p \in Paths :
        /\ analyzed[p] <= 1
        /\ (cache[p] # Absent) <=> (analyzed[p] = 1)
        /\ cache[p] # Absent => cache[p].by \in DOMAIN tasks /\ Last(cache[p].by) = p
    /\ \A t \in DOMAIN tasks :
        LET p == Last(t)
        IN /\ tasks[t].st = "analyzing" => cache[p] = Marker(t)
           /\ tasks[t].st = "blocked" =>
                /\ cache[p].st \in {"pending", "done"}
                /\ cache[p].by # t
                /\ ~OnChain(p, t)
           /\ tasks[t].st = "returned" =>
                /\ cache[p].st = "done"
                /\ tasks[t].got = cache[p]
           /\ tasks[t].st = "placeholder" =>
                /\ OnChain(p, t)
                /\ tasks[t].got = Placeholder(p)
                /\ cache[p].by # t

\* C7 witness: a requester that found another requester's marker has waited
\* and come back with the info that requester published
C7_Witness ==
    \E t \in DOMAIN tasks :
        /\ tasks[t].st = "returned"
        /\ tasks[t].waited
        /\ tasks[t].got = cache[Last(t)]
        /\ cache[Last(t)].by # t

\* C8: the analysis of modules that import each other cyclically always
\* terminates: as long as some load has not come back, some step is possible.
C8_CyclicImportsTerminate ==
    (\A t \in DOMAIN tasks : Finished(t)) \/ ENABLED NextCache

(***************************************************************************)
(* SpecExport: the export visitors of a module (analyzer/export.rs).       *)
(***************************************************************************)
MaxExports == 3

ExportNames == {"A", "B"}
DefaultName == "default"

\* the declarations `export <decl>` may hold
DeclKinds == {"Interface", "Class", "TypeAlias", "Fn", "Enum"}

\* what Analyzer::validate returns for the expression of `export default e`;
\* UndefinedSymbol is the result for e an identifier that nothing binds yet
ValidateResults ==
    { Ok(LitNum(1)), Ok(TString), Err([kind |-> "NoCallSignature"]) }
        \cup {Err([kind |-> "UndefinedSymbol", sym |-> n]) : n \in ExportNames}

\* the type a declaration of kind k named n registers
DeclType(k, n) == [tag |-> k, name |-> n]

\* Scope::register_type
register_type(tys, n, ty) == Extend(tys, [x \in {n} |-> ty])

\* the export visitors run while the items are visited and no assertion failed
Exporting == epc = "body" /\ ~panicked /\ nstmt < MaxExports /\ Len(errors) < MaxErrors

\* Analyzer::export(span, name, from) with scope.types = tys: the export
\* table, the error list and whether assert_eq! failed
export(tys, nm, from) ==
    IF from \notin DOMAIN tys
    THEN [exports |-> exports, panicked |-> FALSE,
          errors |-> Append(errors, [kind |-> "UndefinedSymbol", sym |-> from])]
    ELSE IF nm \in DOMAIN exports
    THEN [exports |-> exports, panicked |-> TRUE, errors |-> errors]
    ELSE [exports |-> Extend(exports, [x \in {nm} |-> tys[from]]),
          panicked |-> FALSE, errors |-> errors]

\* Visit<ExportDecl>: `export interface n`, `export class n`, `export type n`,
\* `export function n`, `export enum n`
VisitExportDecl(k, n) ==
    /\ Exporting
    /\ LET tys == IF k = "Fn" THEN types ELSE register_type(types, n, DeclType(k, n))
           r == export(tys, n, n)
       IN /\ types' = tys
          /\ IF k = "Enum"
             THEN /\ panicked' = (debug_assertions /\ n \in DOMAIN exports)
                  /\ exports' = IF panicked' THEN exports
                                ELSE Extend(exports, [x \in {n} |-> DeclType(k, n)])
                  /\ errors' = errors
             ELSE /\ panicked' = r.panicked
                  /\ exports' = r.exports
                  /\ errors' = r.errors
    /\ last' = [op |-> "export", name |-> n, dup |-> n \in DOMAIN exports]
    /\ nstmt' = nstmt + 1
    /\ UNCHANGED <<pending_exports, debug_assertions, epc>>

\* Visit<ExportDefaultDecl>: `export default function [i]` (i = DefaultName
\* when the function has no name) and `export default interface i`
VisitExportDefaultDecl(k, i) ==
    /\ Exporting
    /\ k \in {"Fn", "Interface"}
    /\ k = "Interface" => i # DefaultName
    /\ LET tys == register_type(types, i, DeclType(k, i))
           r == export(tys, DefaultName, i)
       IN /\ types' = tys
          /\ panicked' = r.panicked
          /\ exports' = r.exports
          /\ errors' = r.errors
    /\ last' = [op |-> "export", name |-> DefaultName,
                dup |-> DefaultName \in DOMAIN exports]
    /\ nstmt' = nstmt + 1
    /\ UNCHANGED <<pending_exports, debug_assertions, epc>>

\* Analyzer::export_default_expr: `export default e`, v = validate(e)
export_default_expr(v) ==
    /\ Exporting
    /\ (~v.ok /\ v.err.kind = "UndefinedSymbol") => v.err.sym \notin DOMAIN types
    /\ IF DefaultName \in DOMAIN exports
       THEN /\ panicked' = TRUE
            /\ UNCHANGED <<exports, pending_exports, errors>>
       ELSE /\ panicked' = FALSE
            /\ IF v.ok
               THEN /\ exports' = Extend(exports, [x \in {DefaultName} |-> v.map])
                    /\ UNCHANGED <<pending_exports, errors>>
               ELSE IF v.err.kind = "UndefinedSymbol"
               THEN /\ pending_exports' = Append(pending_exports,
                                             [sym |-> DefaultName, expr |-> v.err.sym])
                    /\ UNCHANGED <<exports, errors>>
               ELSE /\ errors' = Append(errors, v.err)
                    /\ UNCHANGED <<exports, pending_exports>>
    /\ last' = [op |-> "export", name |-> DefaultName,
                dup |-> DefaultName \in DOMAIN exports]
    /\ nstmt' = nstmt + 1
    /\ UNCHANGED <<types, debug_assertions, epc>>

\* the loop of handle_pending_exports from entry k on, with scope.types = tys
\* and info.exports = exps; an entry ((sym, _), expr) is [sym, expr], expr
\* the identifier exported, and the loop looks up sym
RECURSIVE PendingLoop(_, _, _, _)
PendingLoop(pend, k, tys, exps) ==
    IF k > Len(pend) THEN [types |-> tys, exports |-> exps, panicked |-> FALSE]
    ELSE IF debug_assertions /\ pend[k].sym \in DOMAIN exps
    THEN [types |-> tys, exports |-> exps, panicked |-> TRUE]
    ELSE IF pend[k].sym \notin DOMAIN tys
    THEN [types |-> tys, exports |-> exps, panicked |-> FALSE]
    ELSE PendingLoop(pend, k + 1,
                     [x \in DOMAIN tys \ {pend[k].sym} |-> tys[x]],
                     Extend(exps, [x \in {pend[k].sym} |-> tys[pend[k].sym]]))

\* Analyzer::handle_pending_exports, called when the items were visited
handle_pending_exports ==
    /\ epc = "body"
    /\ ~panicked
    /\ LET r == PendingLoop(pending_exports, 1, types, exports)
       IN /\ types' = r.types
          /\ exports' = r.exports
          /\ panicked' = r.panicked
    /\ pending_exports' = <<>>
    /\ epc' = "done"
    /\ last' = [op |-> "pending"]
    /\ UNCHANGED <<errors, nstmt, debug_assertions>>

ExportInit ==
    /\ exports = <<>>
    /\ types = <<>>
    /\ pending_exports = <<>>
    /\ panicked = FALSE
    /\ nstmt = 0
    /\ debug_assertions \in BOOLEAN
    /\ epc = "body"

InitExport == ScopeInit /\ ClassIdle /\ ImportIdle /\ CacheIdle /\ ExportInit /\ ExprIdle /\ ThisIdle

NextExport ==
    \/ (\E k \in DeclKinds, n \in ExportNames : VisitExportDecl(k, n))
            /\ UNCHANGED <<scopes, declared, saved, classVars, importVars, cacheVars, exprVars,
                           thisVars>>
    \/ (\E k \in DeclKinds, i \in ExportNames \cup {DefaultName} :
            VisitExportDefaultDecl(k, i))
            /\ UNCHANGED <<scopes, declared, saved, classVars, importVars, cacheVars, exprVars,
                           thisVars>>
    \/ (\E v \in ValidateResults : export_default_expr(v))
            /\ UNCHANGED <<scopes, declared, saved, classVars, importVars, cacheVars, exprVars,
                           thisVars>>
    \/ handle_pending_exports
            /\ UNCHANGED <<scopes, declared, saved, classVars, importVars, cacheVars, exprVars,
                           thisVars>>

SpecExport == InitExport /\ [][NextExport]_vars

(***************************************************************************)
(* Claims about exports (checked under SpecExport).                        *)
(***************************************************************************)
\* C11: an export statement for a name that is already in the export table
\* records a diagnostic in the error list and does not abort the analysis;
\* the export table keeps its entry for the name.
C11_DuplicateExportIsDiagnostic ==
    [][(last'.op = "export" /\ last'.dup) =>
            /\ ~panicked'
            /\ Len(errors') = Len(errors) + 1
            /\ last'.name \in DOMAIN exports']_vars

(***************************************************************************)
(* SpecExpr: expression typing and type expansion (analyzer/expr.rs).      *)
(***************************************************************************)
\* ---- further types ----
LitBool(b) == [tag |-> "Lit", base |-> "boolean", bool |-> b]
TBoolean == Kw("boolean")
TUndefined == Kw("undefined")
TNull == Kw("null")
Array(elem_type) == [tag |-> "Array", elem_type |-> elem_type]
Intersection(ts) == [tag |-> "Intersection", types |-> ts]
\* an enum: members in declaration order, each [name, init]
Enum(id, members) == [tag |-> "Enum", id |-> id, members |-> members]
EnumVariant(enum_name, nm) == [tag |-> "EnumVariant", enum_name |-> enum_name, name |-> nm]
\* an interface: body holds its TsTypeElements
Interface(id, ibody) == [tag |-> "Interface", id |-> id, body |-> ibody]
\* TsTypeElement::TsMethodSignature: key is an expression, nparams the number
\* of declared parameters, type_ann the return type or NoTy when none is written
MethodSig(key, nparams, type_ann) ==
    [tag |-> "Method", key |-> key, nparams |-> nparams, type_ann |-> type_ann]
\* TsTypeElement::TsPropertySignature
PropertySig == [tag |-> "Property"]
\* Type::Simple(TsType::TsTypeRef) with an identifier / a qualified name
Ref(type_name, type_params) ==
    [tag |-> "Ref", type_name |-> type_name, type_params |-> type_params]
QualRef(left, right) == [tag |-> "QualRef", left |-> left, right |-> right]
\* Type::Simple(TsType::TsTypeQuery): `typeof expr_name`
TypeQuery(expr_name) == [tag |-> "TypeQuery", expr_name |-> expr_name]
TypeLit(members) == [tag |-> "TypeLit", members |-> members]
ThisType == [tag |-> "This"]

\* ---- expressions ----
NoInit == [tag |-> "NoInit"]
EIdent(sym) == [tag |-> "Ident", sym |-> sym]
ELit(ty) == [tag |-> "Lit", ty |-> ty]
ENull == [tag |-> "Null"]
EThis == [tag |-> "This"]
ETpl == [tag |-> "Tpl"]
EParen(e) == [tag |-> "Paren", expr |-> e]
EUnary(op, arg) == [tag |-> "Unary", op |-> op, arg |-> arg]
EBin(op, right) == [tag |-> "Bin", op |-> op, right |-> right]
ECond(cons, alt) == [tag |-> "Cond", cons |-> cons, alt |-> alt]
EMember(obj, prop, computed) ==
    [tag |-> "Member", obj |-> obj, prop |-> prop, computed |-> computed]
ECall(callee, nargs) == [tag |-> "Call", callee |-> callee, nargs |-> nargs]
EAwait(arg) == [tag |-> "Await", arg |-> arg]
EMetaProp == [tag |-> "MetaProp"]
EAssign(right) == [tag |-> "Assign", right |-> right]
ESeq(exprs) == [tag |-> "Seq", exprs |-> exprs]
\* an array literal: elems are [spread, expr]; a hole is the element `undefined`
EArray(elems) == [tag |-> "Array", elems |-> elems]
\* an object literal: props are "Prop" or "Spread"
EObject(props) == [tag |-> "Object", props |-> props]

\* ---- Result<Type, Error>, and a panic of the analyzer ----
TyOk(ty) == [res |-> "Ok", ty |-> ty]
TyErr(err) == [res |-> "Err", err |-> err]
\* obj: the object type an unimplemented!/unreachable! message shows, if any
Panic(msg, obj) == [res |-> "Panic", msg |-> msg, obj |-> obj]

\* Type::generalize_lit: a literal type widened to its keyword
generalize_lit(ty) == IF ty.tag = "Lit" THEN Kw(ty.base) ELSE ty

\* negate that gives the truth value of `!x` for a number: `true` for zero
negate_falsy_zero(ty) ==
    IF ty.tag = "Lit"
    THEN IF ty.base = "boolean" THEN LitBool(~ty.bool)
         ELSE IF ty.base = "number" THEN LitBool(ty.num = 0)
         ELSE LitBool(ty.str # "")
    ELSE TBoolean

\* negate(ty) of `!x`
negate(ty) ==
    IF ty.tag = "Lit"
    THEN IF ty.base = "boolean" THEN LitBool(~ty.bool)
         ELSE IF ty.base = "number" THEN LitBool(ty.num # 0)
         ELSE LitBool(ty.str # "")
    ELSE TBoolean

\* builtin_types::get_type(libs, sym)
BuiltinTypes == {"Number", "String", "RegExp"}
builtin_type(sym) == [tag |-> "Interface", id |-> sym, body |-> <<>>]

BoolOps == {"===", "!==", "==", "!=", "<=", "<", ">=", ">"}
\* ty::Function; params are TsFnParam: [tag, optional]
Function(params, ret_ty) == [tag |-> "Function", params |-> params, ret_ty |-> ret_ty]
FnParam(tag, optional) == [tag |-> tag, optional |-> optional]

\* try_instantiate that takes every formal parameter as required
try_instantiate_all_required(ret_type, param_decls, nargs) ==
    IF nargs # Len(param_decls)
    THEN TyErr([kind |-> "WrongParams",
                expected |-> <<Len(param_decls), Len(param_decls)>>,
                actual |-> nargs])
    ELSE TyOk(ret_type)

\* Analyzer::try_instantiate(span, callee_span, ret_type, param_decls, _, args, _)
try_instantiate(ret_type, param_decls, nargs) ==
    LET min == Len(SelectSeq(param_decls,
                             LAMBDA p : ~(p.tag = "Ident" /\ p.optional)))
    IN IF ~(min <= nargs /\ nargs <= Len(param_decls))
       THEN TyErr([kind |-> "WrongParams",
                   expected |-> <<min, Len(param_decls)>>,
                   actual |-> nargs])
       ELSE TyOk(ret_type)

\* Analyzer::extract(span, ty, ExtractKind::Call, args, type_args); the
\* interfaces and type literals of the model declare no call signature
RECURSIVE extract(_, _)
RECURSIVE extract_union(_, _, _, _)
extract_union(tys, k, nargs, errs) ==
    IF k > Len(tys) THEN TyErr([kind |-> "UnionError", errors |-> errs])
    ELSE LET r == extract(tys[k], nargs)
         IN IF r.res = "Err" THEN extract_union(tys, k + 1, nargs, Append(errs, r.err))
            ELSE r

extract(ty, nargs) ==
    IF is_any(ty) THEN TyOk(TAny)
    ELSE IF ty.tag = "Function" THEN try_instantiate(ty.ret_ty, ty.params, nargs)
    ELSE IF ty.tag = "Union" THEN extract_union(ty.types, 1, nargs, <<>>)
    ELSE TyErr([kind |-> "NoCallSignature", callee |-> ty])

RECURSIVE type_of(_)
RECURSIVE access_property(_, _, _)
RECURSIVE extract_call_new_expr_member(_, _)
RECURSIVE type_of_array(_, _, _)

\* Analyzer::type_of(expr)
type_of(expr) ==
    CASE expr.tag = "This" -> TyOk(ThisType)
      [] expr.tag = "Ident" ->
            IF expr.sym = "undefined" THEN TyOk(TUndefined)
            ELSE IF expr.sym = "require" THEN Panic("unreachable: typeof(require('...'))", NoTy)
            ELSE IF type_of_ident(expr.sym) # NoTy THEN TyOk(type_of_ident(expr.sym))
            ELSE TyErr([kind |-> "UndefinedSymbol", sym |-> expr.sym])
      [] expr.tag = "Array" -> type_of_array(expr.elems, 1, <<>>)
      [] expr.tag = "Lit" -> TyOk(expr.ty)
      [] expr.tag = "Null" -> TyOk(TNull)
      [] expr.tag = "Paren" -> type_of(expr.expr)
      [] expr.tag = "Tpl" -> TyOk(TString)
      [] expr.tag = "Unary" ->
            IF expr.op = "!"
            THEN LET r == type_of(expr.arg)
                 IN IF r.res = "Ok" THEN TyOk(negate(r.ty)) ELSE r
            ELSE IF expr.op = "typeof" THEN TyOk(TString)
            ELSE IF expr.op = "void" THEN TyOk(TUndefined)
            ELSE Panic("unimplemented: typeof", NoTy)
      [] expr.tag = "Object" ->
            IF \E i \in 1..Len(expr.props) : expr.props[i] = "Spread"
            THEN Panic("unimplemented: spread element in object literal", NoTy)
            ELSE TyOk(TypeLit([i \in 1..Len(expr.props) |-> PropertySig]))
      [] expr.tag = "Cond" ->
            LET cons_ty == type_of(expr.cons)
            IN IF cons_ty.res # "Ok" THEN cons_ty
               ELSE LET alt_ty == type_of(expr.alt)
                    IN IF alt_ty.res # "Ok" THEN alt_ty
                       ELSE IF cons_ty.ty = alt_ty.ty THEN cons_ty
                       ELSE TyOk(Union(<<cons_ty.ty, alt_ty.ty>>))
      [] expr.tag = "Call" -> extract_call_new_expr_member(expr.callee, expr.nargs)
      [] expr.tag = "Seq" -> type_of(expr.exprs[Len(expr.exprs)])
      [] expr.tag = "Await" -> Panic("unimplemented: typeof(AwaitExpr)", NoTy)
      [] expr.tag = "Member" ->
            LET obj_ty == type_of(expr.obj)
            IN IF obj_ty.res # "Ok" THEN obj_ty
               ELSE access_property(obj_ty.ty, expr.prop, expr.computed)
      [] expr.tag = "MetaProp" -> Panic("unimplemented: typeof(MetaProp)", NoTy)
      [] expr.tag = "Assign" -> type_of(expr.right)
      [] expr.tag = "Bin" ->
            IF expr.op \in {"||", "&&"} THEN type_of(expr.right)
            ELSE IF expr.op = "-" THEN TyOk(TNumber)
            ELSE IF expr.op \in BoolOps THEN TyOk(TBoolean)
            ELSE Panic("unimplemented: typeof", NoTy)
      [] OTHER -> Panic("unimplemented: typeof", NoTy)

\* the Expr::Array arm: elems from position k on, `types` collected so far
type_of_array(elems, k, tys) ==
    IF k > Len(elems)
    THEN TyOk(Array(IF Len(tys) = 0 THEN TAny
                    ELSE IF Len(tys) = 1 THEN tys[1]
                    ELSE Union(tys)))
    ELSE IF elems[k].spread THEN Panic("unimplemented: type of array spread", NoTy)
    ELSE LET r == type_of(elems[k].expr)
         IN IF r.res # "Ok" THEN r
            ELSE LET ty == generalize_lit(r.ty)
                 IN type_of_array(elems, k + 1,
                        IF \A i \in 1..Len(tys) : tys[i] # ty
                        THEN Append(tys, ty) ELSE tys)
\* the object a variant stands for: the initializer of the member at
\* position i of the enum, or its ordinal as a numeric literal
variant_init(e, i) ==
    IF e.members[i].init = NoInit THEN ELit(LitNum(i - 1)) ELSE e.members[i].init

\* the position of the member the loop of access_property returns at
first_member(e, nm) == 1

\* Analyzer::access_property(span, obj, prop, computed)
access_property(obj, prop, computed) ==
    LET o == generalize_lit(obj)
    IN CASE o.tag = "Enum" /\ prop.tag = "Ident" /\ ~computed ->
                TyOk(EnumVariant(o.id, prop.sym))
         [] o.tag = "EnumVariant" ->
                LET v == find_type(o.enum_name)
                IN IF v.tag # "Enum"
                   THEN Panic("unreachable: Enum does not exist", NoTy)
                   ELSE IF Len(v.members) = 0
                   THEN Panic("unreachable: Enum does not have a variant", NoTy)
                   ELSE LET new_obj_ty == type_of(variant_init(v, first_member(v, o.name)))
                        IN IF new_obj_ty.res # "Ok" THEN new_obj_ty
                           ELSE access_property(new_obj_ty.ty, prop, computed)
         [] OTHER -> Panic("unimplemented: type_of(MemberExpr)", o)

\* search_members_for_prop!(members, prop): the value returned from
\* extract_call_new_expr_member, or NoRet when the macro falls through
search_members_for_prop(members, prop, nargs) ==
    LET candidates == SelectSeq(members, LAMBDA m : m.tag = "Method" /\ m.key = prop)
        ret_of(c) == IF c.type_ann = NoTy THEN TAny ELSE c.type_ann
        fitting == SelectSeq(candidates, LAMBDA c : c.nparams = nargs)
    IN IF Len(candidates) = 0 THEN NoRet
       ELSE IF Len(candidates) = 1 THEN TyOk(ret_of(candidates[1]))
       ELSE IF fitting # <<>> THEN TyOk(ret_of(fitting[1]))
       ELSE Panic("unimplemented: multiple methods with same name and same number of arguments",
                  NoTy)

\* Analyzer::extract_call_new_expr_member(callee, ExtractKind::Call, args, _);
\* calls of `require` are not among the expressions modelled
extract_call_new_expr_member(callee, nargs) ==
    IF callee.tag = "Member"
    THEN LET r == type_of(callee.obj)
         IN IF r.res # "Ok" THEN r
            ELSE LET obj_type == generalize_lit(r.ty)
                 IN IF obj_type.tag = "Function" THEN TyOk(obj_type.ret_ty)
                    ELSE IF is_any(obj_type) THEN TyOk(TAny)
                    ELSE IF obj_type = TNumber THEN TyOk(builtin_type("Number"))
                    ELSE IF obj_type = TString THEN TyOk(builtin_type("String"))
                    ELSE IF obj_type.tag = "Interface"
                            /\ search_members_for_prop(obj_type.body, callee.prop, nargs) # NoRet
                    THEN search_members_for_prop(obj_type.body, callee.prop, nargs)
                    ELSE IF obj_type.tag = "TypeLit"
                            /\ search_members_for_prop(obj_type.members, callee.prop, nargs) # NoRet
                    THEN search_members_for_prop(obj_type.members, callee.prop, nargs)
                    ELSE IF callee.computed
                    THEN Panic("unimplemented: typeof(CallExpr)", NoTy)
                    ELSE LET c == type_of(callee)
                         IN IF c.res # "Ok" THEN c
                            ELSE TyErr([kind |-> "NoCallSignature", callee |-> c.ty])
    ELSE LET r == type_of(callee)
         IN IF r.res # "Ok" THEN r ELSE extract(r.ty, nargs)
\* Scope::find_type
scope_find_type(sym) == IF sym \in DOMAIN types THEN types[sym] ELSE NoTy

RECURSIVE fix_type(_)
RECURSIVE fix_types(_, _, _)

\* the members of a union or intersection expanded one after the other; the
\* first failure is returned
fix_types(tys, k, done) ==
    IF k > Len(tys) THEN TyOk(done)
    ELSE LET r == fix_type(tys[k])
         IN IF r.res # "Ok" THEN r ELSE fix_types(tys, k + 1, Append(done, r.ty))

\* Analyzer::fix_type(span, ty)
fix_type(ty) ==
    CASE ty.tag = "Ref" ->
            IF ty.type_name \in BuiltinTypes THEN TyOk(builtin_type(ty.type_name))
            ELSE LET t == find_type(ty.type_name)
                 IN IF t.tag = "Enum"
                    THEN IF ty.type_params
                         THEN Panic("assertion failed: Enum reference cannot have type parameters", NoTy)
                         ELSE TyOk(t)
                    ELSE IF t.tag \in {"Interface", "Class"} THEN TyOk(t)
                    ELSE TyOk(ty)
      [] ty.tag = "QualRef" ->
            IF scope_find_type(ty.left).tag = "Enum"
            THEN TyOk(EnumVariant(ty.left, ty.right))
            ELSE TyOk(ty)
      [] ty.tag = "TypeQuery" -> type_of(EIdent(ty.expr_name))
      [] ty.tag = "Union" ->
            LET r == fix_types(ty.types, 1, <<>>)
            IN IF r.res # "Ok" THEN r ELSE TyOk(Union(r.ty))
      [] ty.tag = "Intersection" ->
            LET r == fix_types(ty.types, 1, <<>>)
            IN IF r.res # "Ok" THEN r ELSE TyOk(Intersection(r.ty))
      [] OTHER -> TyOk(ty)

\* Analyzer::infer_return_type: tys are the collected inferred_return_types;
\* NoTy stands for Ok(None)
infer_return_type(tys) ==
    IF Len(tys) = 0 THEN TyOk(NoTy)
    ELSE IF Len(tys) = 1 THEN TyOk(tys[1])
    ELSE TyOk(Union(tys))

\* Analyzer::type_of_fn on a function with a body and no parameters:
\* declared_ret_ty is the return type annotation (NoTy when none is written), tys
\* the collected inferred_return_types
type_of_fn(declared_ret_ty, tys) ==
    LET d == IF declared_ret_ty = NoTy THEN TyOk(NoTy) ELSE fix_type(declared_ret_ty)
        inf == infer_return_type(tys)
        inferred_return_type == IF inf.ty = NoTy THEN TUndefined ELSE inf.ty
    IN IF d.res # "Ok" THEN d
       ELSE IF d.ty # NoTy /\ ~assign_to(inferred_return_type, d.ty)
       THEN TyErr([kind |-> "AssignFailed"])
       ELSE TyOk(Function(<<>>, IF d.ty # NoTy THEN d.ty ELSE inferred_return_type))

\* ---- the declarations and calls of the model ----
Member(nm, init) == [name |-> nm, init |-> init]

\* enum E { A, B = "s" }, enum E { A = "s", B }, enum E {}
EnumDecls ==
    { Enum("E", <<Member("A", NoInit), Member("B", ELit(LitStr("s")))>>),
      Enum("E", <<Member("A", ELit(LitStr("s"))), Member("B", NoInit)>>),
      Enum("E", <<>>) }

InterfaceNames == {"I"}
\* the bodies an interface declaration may have: the empty one, and
\* { m(): number; m(a): string; n(): string; k(); p: number }
InterfaceBodies ==
    { <<>>,
      <<MethodSig(EIdent("m"), 0, TNumber), MethodSig(EIdent("m"), 1, TString),
        MethodSig(EIdent("n"), 0, TString), MethodSig(EIdent("k"), 0, NoTy),
        PropertySig>> }
\* the type literal { m(): number; m(a): string; n(a): string }
MethodsLit ==
    TypeLit(<<MethodSig(EIdent("m"), 0, TNumber), MethodSig(EIdent("m"), 1, TString),
              MethodSig(EIdent("n"), 1, TString)>>)
ExprVarNames == {"x", "a"}

\* the annotations of `let sym: ann;`
VarAnns == {TStrOrNum, Ref("I", FALSE), TypeQuery("a"), Ref("E", TRUE), MethodsLit, TAny}

\* the types fix_type is called with
FixInputs ==
    VarAnns \cup
    { Ref("Number", FALSE), Ref("E", FALSE), Ref("T", FALSE), QualRef("E", "A"),
      QualRef("I", "A"), TypeQuery("x"), LitNum(1),
      Union(<<Ref("I", FALSE), TNumber>>),
      Intersection(<<Ref("E", FALSE), QualRef("E", "B")>>) }

Atoms ==
    { EIdent("x"), EIdent("a"), EIdent("E"), EIdent("u"), EIdent("undefined"),
      ELit(LitNum(1)), ELit(LitStr("a")), ELit(LitBool(TRUE)), ENull, EThis, ETpl }

\* x.m(), x.m(a), x.m(a, b), x.n(), ..., x.k(a, b)
MethodCalls ==
    {ECall(EMember(EIdent("x"), EIdent(k), FALSE), n) : k \in {"m", "n", "k"}, n \in 0..2}

\* E.A, E.B
Variants == {EMember(EIdent("E"), EIdent(m), FALSE) : m \in {"A", "B"}}

Exprs ==
    Atoms \cup Variants \cup MethodCalls
    \cup {EMember(v, EIdent("toString"), FALSE) : v \in Variants}
    \cup {ECall(EMember(v, EIdent("toString"), FALSE), 0) : v \in Variants}
    \cup {EMember(EIdent("E"), ELit(LitStr("A")), TRUE),
          EMember(EIdent("x"), EIdent("length"), FALSE),
          ECall(EMember(ELit(LitNum(1)), EIdent("toFixed"), FALSE), 0),
          ECall(EMember(EIdent("x"), ELit(LitStr("f")), TRUE), 0),
          ECall(EIdent("x"), 0), ECall(EIdent("u"), 1)}
    \cup {ECond(c, a) : c, a \in {EIdent("x"), ELit(LitNum(1)), ELit(LitStr("a"))}}
    \cup {ECond(ECond(ELit(LitNum(1)), ELit(LitStr("a"))), ELit(LitNum(1)))}
    \cup {EUnary(op, ELit(LitNum(1))) : op \in {"!", "typeof", "void", "-"}}
    \cup {EUnary("!", e) : e \in {ELit(LitNum(0)), ELit(LitBool(TRUE)), ELit(LitBool(FALSE)),
                                  ELit(LitStr("")), ELit(LitStr("a")), EIdent("x"), ETpl,
                                  EIdent("u")}}
    \cup {EBin(op, ELit(LitNum(1))) : op \in {"||", "-", "===", "+", "*"}}
    \cup {EArray(<<>>),
          EArray(<<[spread |-> FALSE, expr |-> ELit(LitNum(1))],
                   [spread |-> FALSE, expr |-> ELit(LitNum(1))]>>),
          EArray(<<[spread |-> FALSE, expr |-> ELit(LitNum(1))],
                   [spread |-> FALSE, expr |-> EIdent("x")]>>),
          EArray(<<[spread |-> TRUE, expr |-> EIdent("x")]>>),
          EObject(<<"Prop">>), EObject(<<"Prop", "Spread">>),
          EParen(EIdent("u")), EAssign(ELit(LitStr("a"))),
          ESeq(<<EIdent("u"), ELit(LitNum(1))>>),
          EAwait(ELit(LitNum(1))), EMetaProp}

\* the arguments of the return statements of a function body
ReturnArgs == {ELit(LitNum(1)), ELit(LitStr("a")), EIdent("x")}
ReturnLists ==
    {<<>>} \cup {<<r>> : r \in ReturnArgs}
    \cup (ReturnArgs \X ReturnArgs)

\* the return type annotations of a function (NoTy: none written)
DeclaredReturns == {NoTy, TNumber, Ref("I", FALSE)}

\* The declarations are visited first; then one of the functions is applied in
\* the scope they built (call = NoCall until then).

\* Visit<TsEnumDecl>: register the enum
VisitTsEnumDecl(e) ==
    /\ ~panicked
    /\ call = NoCall
    /\ e.id \notin DOMAIN types
    /\ types' = register_type(types, e.id, e)
    /\ UNCHANGED <<scopes, errors, panicked, call, ret>>

\* Visit<TsInterfaceDecl>: register the interface
VisitTsInterfaceDecl(id, ibody) ==
    /\ ~panicked
    /\ call = NoCall
    /\ id \notin DOMAIN types
    /\ types' = register_type(types, id, Interface(id, ibody))
    /\ UNCHANGED <<scopes, errors, panicked, call, ret>>

\* Visit<VarDecl>, declarator without initializer: `let sym: ann;`
VisitVarDeclNoInit(sym, ann) ==
    /\ ~panicked
    /\ call = NoCall
    /\ Len(errors) < MaxErrors
    /\ sym \notin DOMAIN Top
    /\ LET r == fix_type(ann)
       IN /\ panicked' = (r.res = "Panic")
          /\ errors' = IF r.res = "Err" THEN Append(errors, r.err) ELSE errors
          /\ scopes' = IF r.res = "Ok"
                       THEN SetTop(declare_var(Top, "let", sym, r.ty, FALSE))
                       ELSE scopes
    /\ UNCHANGED <<types, call, ret>>

CallTypeOf(e) ==
    /\ ~panicked
    /\ call = NoCall
    /\ call' = [fn |-> "type_of", expr |-> e]
    /\ ret' = type_of(e)
    /\ UNCHANGED <<scopes, errors, types, panicked>>

CallFixType(ty) ==
    /\ ~panicked
    /\ call = NoCall
    /\ call' = [fn |-> "fix_type", ty |-> ty]
    /\ ret' = fix_type(ty)
    /\ UNCHANGED <<scopes, errors, types, panicked>>

\* type_of_fn on a function whose return statements have the arguments args
CallInferReturnType(args) ==
    /\ ~panicked
    /\ call = NoCall
    /\ \A i \in 1..Len(args) : type_of(args[i]).res = "Ok"
    /\ call' = [fn |-> "infer_return_type", args |-> args]
    /\ ret' = infer_return_type([i \in 1..Len(args) |-> type_of(args[i]).ty])
    /\ UNCHANGED <<scopes, errors, types, panicked>>

\* the computed keys of class properties: "a", 1, x, u, `t`, Symbol.iterator
ComputedKeys ==
    { ELit(LitStr("a")), ELit(LitNum(1)), EIdent("x"), EIdent("u"), ETpl, EMetaProp,
      EMember(EIdent("Symbol"), EIdent("iterator"), FALSE) }

\* the spans of a class property and of its key
PropSpan == "p.span"
KeySpan == "p.key.span"

TS1166(span) == [code |-> "TS1166", span |-> span]

\* Analyzer::validate_computed_prop_key(span, key): the `errors` collected,
\* or the panic of type_of
validate_computed_prop_key(span, key) ==
    LET is_symbol_access == key.tag = "Member" /\ key.obj = EIdent("Symbol")
        r == type_of(key)
        ty == IF r.res = "Ok" THEN r.ty ELSE TAny
        errs == IF r.res = "Err" THEN <<r.err>> ELSE <<>>
    IN IF r.res = "Panic" THEN r
       ELSE [res |-> "Done",
             errors |-> IF ty.tag = "Lit" \/ is_symbol_access THEN errs
                        ELSE Append(errs, TS1166(span))]

\* Fold<ClassProp> for a property with the computed key `key`, without type
\* annotation and value; analyze! pushes the Error::Errors returned
FoldClassProp(key) ==
    /\ ~panicked
    /\ call = NoCall
    /\ call' = [fn |-> "validate_computed_prop_key", key |-> key]
    /\ ret' = validate_computed_prop_key(PropSpan, key)
    /\ errors' = IF ret'.res = "Done" /\ ret'.errors # <<>>
                 THEN Append(errors, [kind |-> "Errors", errors |-> ret'.errors])
                 ELSE errors
    /\ UNCHANGED <<scopes, types, panicked>>

CallTypeOfFn(declared_ret_ty, args) ==
    /\ ~panicked
    /\ call = NoCall
    /\ \A i \in 1..Len(args) : type_of(args[i]).res = "Ok"
    /\ call' = [fn |-> "type_of_fn", declared |-> declared_ret_ty, args |-> args]
    /\ ret' = type_of_fn(declared_ret_ty, [i \in 1..Len(args) |-> type_of(args[i]).ty])
    /\ UNCHANGED <<scopes, errors, types, panicked>>

InitExpr == ScopeInit /\ ClassIdle /\ ImportIdle /\ CacheIdle /\ ExportIdle /\ ExprIdle /\ ThisIdle

exprFrame == <<declared, saved, last, classVars, importVars, cacheVars,
               exports, pending_exports, nstmt, debug_assertions, epc, thisVars>>

NextExpr ==
    \/ (\E e \in EnumDecls : VisitTsEnumDecl(e)) /\ UNCHANGED exprFrame
    \/ (\E id \in InterfaceNames, ibody \in InterfaceBodies : VisitTsInterfaceDecl(id, ibody))
            /\ UNCHANGED exprFrame
    \/ (\E sym \in ExprVarNames, ann \in VarAnns : VisitVarDeclNoInit(sym, ann))
            /\ UNCHANGED exprFrame
    \/ (\E e \in Exprs : CallTypeOf(e)) /\ UNCHANGED exprFrame
    \/ (\E ty \in FixInputs : CallFixType(ty)) /\ UNCHANGED exprFrame
    \/ (\E args \in ReturnLists : CallInferReturnType(args)) /\ UNCHANGED exprFrame
    \/ (\E d \in DeclaredReturns, args \in ReturnLists : CallTypeOfFn(d, args))
            /\ UNCHANGED exprFrame
    \/ (\E key \in ComputedKeys : FoldClassProp(key)) /\ UNCHANGED exprFrame

SpecExpr == InitExpr /\ [][NextExpr]_vars
(***************************************************************************)
(* Claims about expression typing (checked under SpecExpr).                *)
(***************************************************************************)
\* C12: type_of returns a type or an Error value for every expression; it
\* never aborts the analysis.
C12_TypeOfNeverAborts ==
    call.fn = "type_of" => ret.res \in {"Ok", "Err"}

\* a type whose unions are flattened and hold at least two pairwise distinct
\* members
RECURSIVE Normalized(_)
Normalized(ty) ==
    IF ty.tag = "Union"
    THEN /\ Len(ty.types) >= 2
         /\ \A i, j \in 1..Len(ty.types) : i # j => ty.types[i] # ty.types[j]
         /\ \A i \in 1..Len(ty.types) :
                ty.types[i].tag # "Union" /\ Normalized(ty.types[i])
    ELSE IF ty.tag = "Array" THEN Normalized(ty.elem_type)
    ELSE TRUE

\* C13: every type that type_of, fix_type or return-type inference produces
\* has its unions flattened, with at least two pairwise distinct members.
C13_UnionsNormalized ==
    (call.fn \in {"type_of", "fix_type", "infer_return_type"} /\ ret.res = "Ok")
        => Normalized(ret.ty)

\* the positions of the member named nm in the enum registered as E
MemberAt(nm) ==
    IF scope_find_type("E").tag = "Enum"
    THEN {i \in 1..Len(types["E"].members) : types["E"].members[i].name = nm}
    ELSE {}

\* C14: for an enum E with a member m, type_of(E.m) is EnumVariant{E, m} and
\* type_of(E.m.toString()) is `string`, without error.
C14_EnumAccessLaw ==
    \A m \in {"A", "B"} :
        (call.fn = "type_of" /\ MemberAt(m) # {}) =>
            LET v == EMember(EIdent("E"), EIdent(m), FALSE)
            IN /\ call.expr = v => ret = TyOk(EnumVariant("E", m))
               /\ call.expr = ECall(EMember(v, EIdent("toString"), FALSE), 0)
                    => ret = TyOk(TString)

\* C17: fix_type is idempotent: expanding the type a successful fix_type
\* returned, in the same scope, returns that type again.
C17_FixTypeIdempotent ==
    (call.fn = "fix_type" /\ ret.res = "Ok") => fix_type(ret.ty) = ret

\* C20: property access on the variant E.m goes through member m of E: it is
\* the access of the property on the type of m's initializer, or of the
\* numeric literal of m's ordinal when m has none.
C20_VariantAccessThroughOwnMember ==
    \A m \in {"A", "B"} :
        (/\ call.fn = "type_of"
         /\ call.expr = EMember(EMember(EIdent("E"), EIdent(m), FALSE),
                                EIdent("toString"), FALSE)
         /\ MemberAt(m) # {}) =>
            LET i == CHOOSE k \in MemberAt(m) : TRUE
                t == type_of(variant_init(types["E"], i))
            IN ret = IF t.res # "Ok" THEN t
                     ELSE access_property(t.ty, EIdent("toString"), FALSE)

(***************************************************************************)
(* SpecParams: parameter lists.  Fold<ClassMethod> and Fold<Constructor>   *)
(* (class.rs) and visit_fn (mod.rs) applied to a declared parameter list,  *)
(* and try_instantiate (expr.rs) applied to a signature and an argument    *)
(* count.  Parameters carry distinct names, so declare_vars adds no error. *)
(***************************************************************************)
MaxParams == 3

\* Pat of a declared parameter: an identifier (optional or not) or a
\* parameter with a default value
PatIdent(optional) == [tag |-> "Ident", optional |-> optional]
PatAssign == [tag |-> "Assign", optional |-> FALSE]
Pats == {PatIdent(FALSE), PatIdent(TRUE), PatAssign}
\* TsFnParam of a signature
ParamDecls == {FnParam("Ident", FALSE), FnParam("Ident", TRUE), FnParam("Rest", FALSE)}
ParamLists(S) == UNION {[1..n -> S] : n \in 0..MaxParams}
RetTypes == {TNumber, TStrOrNum}

TS1016(span) == [code |-> "TS1016", span |-> span]

\* `// Validate params`: has_optional is set by an optional identifier and
\* every parameter visited while it is set gets a TS1016
RECURSIVE validate_params(_, _, _)
validate_params(params, k, has_optional) ==
    IF k > Len(params) THEN <<>>
    ELSE (IF has_optional THEN <<TS1016(k)>> ELSE <<>>)
         \o validate_params(params, k + 1,
                            has_optional \/ (params[k].tag = "Ident" /\ params[k].optional))

FoldClassMethod(params) ==
    /\ call = NoCall
    /\ call' = [fn |-> "Fold<ClassMethod>", params |-> params]
    /\ errors' = errors \o validate_params(params, 1, FALSE)
    /\ ret' = [res |-> "Done"]

FoldConstructor(params) ==
    /\ call = NoCall
    /\ call' = [fn |-> "Fold<Constructor>", params |-> params]
    /\ errors' = errors \o validate_params(params, 1, FALSE)
    /\ ret' = [res |-> "Done"]

\* visit_fn declares the parameters and visits the body; it has no
\* parameter validation
visit_fn(params) ==
    /\ call = NoCall
    /\ call' = [fn |-> "visit_fn", params |-> params]
    /\ errors' = errors
    /\ ret' = [res |-> "Done"]

CallTryInstantiate(ret_type, param_decls, nargs) ==
    /\ call = NoCall
    /\ call' = [fn |-> "try_instantiate", ret_type |-> ret_type,
                params |-> param_decls, nargs |-> nargs]
    /\ ret' = try_instantiate(ret_type, param_decls, nargs)
    /\ errors' = errors

InitParams == ScopeInit /\ ClassIdle /\ ImportIdle /\ CacheIdle /\ ExportIdle /\ ExprIdle /\ ThisIdle

paramsFrame == <<scopes, declared, saved, last, classVars, importVars, cacheVars,
                 exportVars, thisVars>>

NextParams ==
    \/ (\E ps \in ParamLists(Pats) : FoldClassMethod(ps)) /\ UNCHANGED paramsFrame
    \/ (\E ps \in ParamLists(Pats) : FoldConstructor(ps)) /\ UNCHANGED paramsFrame
    \/ (\E ps \in ParamLists(Pats) : visit_fn(ps)) /\ UNCHANGED paramsFrame
    \/ (\E rt \in RetTypes, ps \in ParamLists(ParamDecls), n \in 0..(MaxParams + 1) :
            CallTryInstantiate(rt, ps, n)) /\ UNCHANGED paramsFrame

SpecParams == InitParams /\ [][NextParams]_vars

(***************************************************************************)
(* Claims about parameter lists (checked under SpecParams).                *)
(***************************************************************************)
\* a formal parameter that an argument must be given for
IsRequired(p) == ~(p.tag = "Ident" /\ p.optional)

\* the positions of the required parameters that follow an optional one
RequiredAfterOptional(params) ==
    {i \in 1..Len(params) :
        /\ IsRequired(params[i])
        /\ \E j \in 1..(i - 1) : ~IsRequired(params[j])}

\* C15: for every function, method and constructor parameter list the
\* diagnostics are exactly one TS1016 at each required parameter that
\* follows an optional one.
C15_RequiredAfterOptional ==
    call.fn \in {"Fold<ClassMethod>", "Fold<Constructor>", "visit_fn"} =>
        /\ \A i \in RequiredAfterOptional(call.params) :
                Len(SelectSeq(errors, LAMBDA e : e = TS1016(i))) = 1
        /\ \A k \in 1..Len(errors) :
                /\ errors[k].code = "TS1016"
                /\ errors[k].span \in RequiredAfterOptional(call.params)

\* C16: try_instantiate succeeds exactly when the argument count lies in
\* [min, max], min the number of non-optional formals and max the number of
\* formals; it then returns the formal return type unchanged, and otherwise
\* the wrong-parameter-count error carrying the range and the actual count.
C16_ArityRange ==
    call.fn = "try_instantiate" =>
        LET min == Cardinality({i \in 1..Len(call.params) : IsRequired(call.params[i])})
            max == Len(call.params)
        IN IF min <= call.nargs /\ call.nargs <= max
           THEN ret = TyOk(call.ret_type)
           ELSE /\ ret.res = "Err"
                /\ ret.err.kind = "WrongParams"
                /\ ret.err.expected = <<min, max>>
                /\ ret.err.actual = call.nargs

\* a call that leaves out an optional parameter is accepted
C16_Witness ==
    /\ call.fn = "try_instantiate"
    /\ ret.res = "Ok"
    /\ call.nargs < Len(call.params)
    /\ call.nargs > 0

(***************************************************************************)
(* A further claim about the import phase (checked under SpecImport).      *)
(***************************************************************************)
\* the imports merged so far that loaded successfully and bind the local
\* name n
EarlierBinders(n) ==
    {j \in 1..merged : ImportResults[j].ok /\ n \in ItemLocals(imports[j])}

\* C18: when the result merged by a step is a successfully loaded import
\* that binds a local name an earlier successfully loaded import bound
\* already, resolved_imports then holds the later import's binding under
\* that name and the step adds a diagnostic to the error list.
C18_LaterImportWinsWithDiagnostic ==
    [][\A n \in UseNames :
        (/\ ipc = "merge"
         /\ merged' = merged + 1
         /\ ImportResults[merged'].ok
         /\ n \in ItemLocals(imports[merged'])
         /\ EarlierBinders(n) # {}) =>
            LET import == imports[merged']
                it == CHOOSE i \in 1..Len(import.items) : import.items[i].local = n
            IN /\ n \in DOMAIN resolved_imports'
               /\ resolved_imports'[n] = ModuleExports[import.src][import.items[it].export]
               /\ Len(errors') > Len(errors)]_vars

(***************************************************************************)
(* A further claim about overload grouping (checked under SpecClass).      *)
(***************************************************************************)
\* C19: when the member visited carries a body and a non-computed key, and
\* bodyless signatures of a different name are pending, the step raises one
\* error per pending signature, at that signature: TS2391, or TS2389 when
\* the pending name is `constructor` (the body is then a non-constructor's).
C19_BodyAfterOtherName ==
    [][(/\ cpc = "loop"
        /\ idx' = idx + 1
        /\ ~declare
        /\ body[idx].kind \in {"Method", "Constructor"}
        /\ body[idx].key.tag # "Computed"
        /\ body[idx].has_body
        /\ name # NoName
        /\ NameOf(name) # NameOf(body[idx].key)) =>
            cerrors' = cerrors \o
                FlushSpans(spans, IF NameOf(name) = "constructor"
                                  THEN "TS2389" ELSE "TS2391")]_vars

(***************************************************************************)
(* A further claim about exports (checked under SpecExport).               *)
(***************************************************************************)
\* C21: the end-of-module resolution of the deferred exports inserts every
\* deferred export whose identifier is bound in the final module scope into
\* the export table under its exported name (whether or not an entry before
\* it was absent), and leaves the pending list empty.
C21_DeferredExportsResolved ==
    [][(epc = "body" /\ epc' = "done" /\ pending_exports # <<>>) =>
            /\ pending_exports' = <<>>
            /\ \A k \in 1..Len(pending_exports) :
                    pending_exports[k].expr \in DOMAIN types =>
                        pending_exports[k].sym \in DOMAIN exports']_vars

(***************************************************************************)
(* Further claims about expression typing (checked under SpecExpr).        *)
(***************************************************************************)
\* the method signatures with the key prop among the members of the
\* interface or type literal ty
SignaturesOf(ty, prop) ==
    SelectSeq(IF ty.tag = "Interface" THEN ty.body ELSE ty.members,
              LAMBDA m : m.tag = "Method" /\ m.key = prop)

\* the return type a method signature declares (`any` when none is written)
ReturnOf(sig) == IF sig.type_ann = NoTy THEN TAny ELSE sig.type_ann

\* C22: a call obj.prop(args) whose object type is an interface or a type
\* literal: with exactly one method signature of that key the result is its
\* return type; with several, the return type of the one whose parameter
\* count is the number of arguments, and an error value when none has that
\* count.
C22_MethodCallResolution ==
    (/\ call.fn = "type_of"
     /\ call.expr.tag = "Call"
     /\ call.expr.callee.tag = "Member"
     /\ type_of(call.expr.callee.obj).res = "Ok"
     /\ type_of(call.expr.callee.obj).ty.tag \in {"Interface", "TypeLit"}) =>
        LET sigs == SignaturesOf(type_of(call.expr.callee.obj).ty, call.expr.callee.prop)
            fit == {i \in 1..Len(sigs) : sigs[i].nparams = call.expr.nargs}
        IN /\ Len(sigs) = 1 => ret = TyOk(ReturnOf(sigs[1]))
           /\ (Len(sigs) > 1 /\ fit # {}) =>
                    \E i \in fit : ret = TyOk(ReturnOf(sigs[i]))
           /\ (Len(sigs) > 1 /\ fit = {}) => ret.res = "Err"

(***************************************************************************)
(* A further claim about identifiers (checked under SpecImport).           *)
(***************************************************************************)
\* C23: an identifier is resolved as a variable before it is resolved as an
\* import: a use of a name that a variable in scope binds with a type has
\* the variable's type, also when a resolved import has the name.
C23_VariableBeforeImport ==
    \A k \in 1..Len(uses) :
        LET v == find_var(scopes, Len(scopes), uses[k].sym)
        IN (v # NoVar /\ v.ty # NoTy) => uses[k].ty = v.ty

(***************************************************************************)
(* A further claim about the import pre-pass (checked under SpecImport).   *)
(***************************************************************************)
\* C24: once the pre-pass has run, `imports` holds exactly one descriptor
\* for every import declaration and require call of the module, in source
\* order: the k-th descriptor is the one of the k-th item.
C24_OneDescriptorPerImport ==
    ipc # "find" =>
        /\ Len(imports) = Len(items)
        /\ \A k \in 1..Len(imports) :
                imports[k].span = k /\ imports[k].src = items[k].src

\* the types collected from the return statements of the function typed
Collected == [i \in 1..Len(call.args) |-> type_of(call.args[i]).ty]

\* C25: the return type of a function that is typed successfully is its
\* declared return type (expanded) when one is written; otherwise
\* `undefined` when nothing was collected, the collected type when one was,
\* and with several a union of the collected types without duplicates.
C25_ReturnType ==
    (call.fn = "type_of_fn" /\ ret.res = "Ok") =>
        LET rt == ret.ty.ret_ty
            tys == {Collected[i] : i \in 1..Len(Collected)}
        IN IF call.declared # NoTy THEN TyOk(rt) = fix_type(call.declared)
           ELSE IF Len(Collected) = 0 THEN rt = TUndefined
           ELSE IF Len(Collected) = 1 THEN rt = Collected[1]
           ELSE IF Cardinality(tys) = 1 THEN rt \in {Collected[1], Union(<<Collected[1]>>)}
           ELSE /\ rt.tag = "Union"
                /\ {rt.types[i] : i \in 1..Len(rt.types)} = tys
                /\ Len(rt.types) = Cardinality(tys)

\* C26: a computed key whose type is a literal type or `any` is accepted
\* without error; a key of another type that is no `Symbol.X` access raises
\* TS1166 at the key's span, and nothing else.
C26_ComputedKey ==
    (/\ call.fn = "validate_computed_prop_key"
     /\ type_of(call.key).res = "Ok"
     /\ ~(call.key.tag = "Member" /\ call.key.obj = EIdent("Symbol"))) =>
        LET ty == type_of(call.key).ty
        IN /\ ret.res = "Done"
           /\ ret.errors = IF ty.tag = "Lit" \/ is_any(ty) THEN <<>>
                           ELSE <<TS1166(KeySpan)>>

\* C27: the type of `!x` for x typed without error: the flipped bool literal
\* for a bool literal, `false` for the numeric literal zero and `true` for
\* every other numeric literal, `false` for the empty string literal and a
\* bool literal for every other string literal, and the keyword `boolean`
\* when the type of x is no literal.
C27_NegationType ==
    (/\ call.fn = "type_of"
     /\ call.expr.tag = "Unary"
     /\ call.expr.op = "!"
     /\ type_of(call.expr.arg).res = "Ok") =>
        LET ty == type_of(call.expr.arg).ty
        IN /\ ret.res = "Ok"
           /\ (ty.tag = "Lit" /\ ty.base = "boolean") => ret.ty = LitBool(~ty.bool)
           /\ (ty.tag = "Lit" /\ ty.base = "number" /\ ty.num = 0) => ret.ty = LitBool(FALSE)
           /\ (ty.tag = "Lit" /\ ty.base = "number" /\ ty.num # 0) => ret.ty = LitBool(TRUE)
           /\ (ty.tag = "Lit" /\ ty.base = "string" /\ ty.str = "") => ret.ty = LitBool(FALSE)
           /\ ty.tag = "Lit" => ret.ty \in {LitBool(TRUE), LitBool(FALSE)}
           /\ ty.tag # "Lit" => ret.ty = TBoolean

\* `!0` was typed `false`
C27_Witness ==
    /\ call.fn = "type_of"
    /\ call.expr = EUnary("!", ELit(LitNum(0)))
    /\ ret = TyOk(LitBool(FALSE))

(***************************************************************************)
(* SpecThis: the visitors of class declarations and class expressions and  *)
(* the this-type slot of the scope.  The repository holds two sets of      *)
(* visitors: Visit<ClassExpr> / Visit<ClassDecl> (mod.rs) and              *)
(* Fold<ClassExpr> / Fold<ClassDecl> (class.rs); `traversal` is the set a  *)
(* build runs.  A visit is entered, the classes nested in the class body   *)
(* are visited, and the visit is left.                                     *)
(***************************************************************************)
MaxNest == 2

ClassNames == {"A", "B", "C"}
\* ClassExpr.ident of a class expression without a name
NoIdent == "<anonymous>"

\* what validate_type_of_class returns: the class type, or an error (the
\* visitor then takes `any`)
ClassTy(id) == [tag |-> "Class", name |-> id]
ClassTypes(id) == {ClassTy(id), TAny}

\* a visit in progress: old_this is the value the slot held when the visit
\* began (kept by the Fold visitors in `old_this`)
ClassVisit(kind, id, ty, old_this) ==
    [kind |-> kind, id |-> id, ty |-> ty, old_this |-> old_this]

\* `Err(err) => { self.info.errors.push(err); Type::any(..) }`
PushClassError(ty) ==
    IF is_any(ty) THEN Append(errors, [kind |-> "InvalidClass"]) ELSE errors

\* register_type and declare_var of the class name
DeclareClass(id, ty) ==
    /\ types' = register_type(types, id, ty)
    /\ scopes' = SetTop(declare_var(Top, "var", id, ty, TRUE))

CanEnter(id) ==
    /\ Len(visiting) < MaxNest
    /\ Len(errors) < MaxErrors
    /\ id \notin DOMAIN types
    /\ \A k \in 1..Len(visiting) : visiting[k].id # id \/ id = NoIdent

\* Visit<ClassDecl> (mod.rs) up to c.visit_children(self).  A class
\* declaration is a statement: inside a class body it only occurs in the body
\* of a function, which has a scope of its own, so the declarations visited
\* in this scope are the ones outside every class body; the classes nested
\* in this scope are the class expressions of property initializers.
VisitClassDeclEnter(id, ty) ==
    /\ traversal = "Visit"
    /\ visiting = <<>>
    /\ CanEnter(id)
    /\ errors' = PushClassError(ty)
    /\ scope_this' = ty
    /\ DeclareClass(id, ty)
    /\ visiting' = Append(visiting, ClassVisit("ClassDecl", id, ty, scope_this))

\* Visit<ClassExpr> (mod.rs) up to c.visit_children(self)
VisitClassExprEnter(id, ty) ==
    /\ traversal = "Visit"
    /\ CanEnter(id)
    /\ errors' = PushClassError(ty)
    /\ scope_this' = ty
    /\ IF id # NoIdent THEN DeclareClass(id, ty) ELSE UNCHANGED <<types, scopes>>
    /\ visiting' = Append(visiting, ClassVisit("ClassExpr", id, ty, scope_this))

\* Visit<ClassDecl> / Visit<ClassExpr> (mod.rs) after c.visit_children(self)
VisitClassLeave ==
    /\ traversal = "Visit"
    /\ visiting # <<>>
    /\ scope_this' = NoTy
    /\ visiting' = Front(visiting)
    /\ UNCHANGED <<types, scopes, errors>>

\* Fold<ClassExpr> (class.rs) up to c.fold_children: the class name is
\* registered in the child scope with_child opens
FoldClassExprEnter(id, ty) ==
    /\ traversal = "Fold"
    /\ CanEnter(id)
    /\ errors' = PushClassError(ty)
    /\ scope_this' = ty
    /\ visiting' = Append(visiting, ClassVisit("ClassExpr", id, ty, scope_this))
    /\ UNCHANGED <<types, scopes>>

\* Fold<ClassExpr> (class.rs) after with_child
FoldClassExprLeave ==
    /\ traversal = "Fold"
    /\ visiting # <<>>
    /\ Last(visiting).kind = "ClassExpr"
    /\ scope_this' = Last(visiting).old_this
    /\ visiting' = Front(visiting)
    /\ UNCHANGED <<types, scopes, errors>>

\* Fold<ClassDecl> (class.rs): c.fold_children(self) comes first
FoldClassDeclEnter(id, ty) ==
    /\ traversal = "Fold"
    /\ visiting = <<>>
    /\ CanEnter(id)
    /\ visiting' = Append(visiting, ClassVisit("ClassDecl", id, ty, scope_this))
    /\ UNCHANGED <<scope_this, types, scopes, errors>>

\* Fold<ClassDecl> (class.rs) after c.fold_children(self): old_this is
\* taken, the slot set, the name declared, and the slot restored
FoldClassDeclLeave ==
    /\ traversal = "Fold"
    /\ visiting # <<>>
    /\ Last(visiting).kind = "ClassDecl"
    /\ errors' = PushClassError(Last(visiting).ty)
    /\ DeclareClass(Last(visiting).id, Last(visiting).ty)
    /\ scope_this' = scope_this
    /\ visiting' = Front(visiting)

ThisInit ==
    /\ scope_this = NoTy
    /\ visiting = <<>>
    /\ traversal \in {"Visit", "Fold"}

InitThis ==
    ScopeInit /\ ClassIdle /\ ImportIdle /\ CacheIdle /\ ExportIdle /\ ExprIdle /\ ThisInit

thisFrame == <<declared, saved, last, classVars, importVars, cacheVars,
               exports, pending_exports, panicked, nstmt, debug_assertions, epc,
               exprVars, traversal>>

NextThis ==
    \/ (\E id \in ClassNames : \E ty \in ClassTypes(id) : VisitClassDeclEnter(id, ty))
            /\ UNCHANGED thisFrame
    \/ (\E id \in ClassNames \cup {NoIdent} : \E ty \in ClassTypes(id) :
            VisitClassExprEnter(id, ty)) /\ UNCHANGED thisFrame
    \/ VisitClassLeave /\ UNCHANGED thisFrame
    \/ (\E id \in ClassNames \cup {NoIdent} : \E ty \in ClassTypes(id) :
            FoldClassExprEnter(id, ty)) /\ UNCHANGED thisFrame
    \/ FoldClassExprLeave /\ UNCHANGED thisFrame
    \/ (\E id \in ClassNames : \E ty \in ClassTypes(id) : FoldClassDeclEnter(id, ty))
            /\ UNCHANGED thisFrame
    \/ FoldClassDeclLeave /\ UNCHANGED thisFrame

SpecThis == InitThis /\ [][NextThis]_vars

(***************************************************************************)
(* Claim about the this-type slot (checked under SpecThis).                *)
(***************************************************************************)
\* C28: when the visit of a class declaration or class expression is left,
\* the this-type slot holds what it held when the visit began; so after a
\* class nested in the body of another class the slot is still the outer
\* class's type.
C28_ThisRestored ==
    [][(visiting # <<>> /\ visiting' = Front(visiting)) =>
            scope_this' = Last(visiting).old_this]_vars

(***************************************************************************)
(* A further claim about assignment narrowing (checked under Spec).        *)
(***************************************************************************)
\* C29: an assignment never narrows a binding of type `any`: every binding
\* of the scope chain whose type is `any` still has the type `any` after
\* the assignment, and a name that resolved to an `any` binding, in the
\* current scope or in an ancestor, resolves to an `any` binding afterwards
\* (the copy made in the current scope included).
C29_AnyNeverNarrowed ==
    [][last'.op = "assign" =>
        /\ \A d \in 1..Len(scopes) : \A n \in DOMAIN scopes[d] :
                is_any(scopes[d][n].ty) =>
                    n \in DOMAIN scopes'[d] /\ is_any(scopes'[d][n].ty)
        /\ \A n \in Names :
                is_any(find_var(scopes, Len(scopes), n).ty) =>
                    is_any(find_var(scopes', Len(scopes'), n).ty)]_vars

\* the number 1 was assigned in a block to an outer `any` binding: the copy
\* of the block is `any`
C29_Witness ==
    /\ last = [op |-> "assign", sym |-> "x", rhs |-> LitNum(1)]
    /\ Len(scopes) > 1
    /\ "x" \in DOMAIN Top
    /\ Top["x"].copied
    /\ is_any(Top["x"].ty)

(***************************************************************************)
(* A further claim about overload grouping (checked under SpecClass).      *)
(***************************************************************************)
HasPlainKey(i) ==
    body[i].kind \in {"Method", "Constructor"} /\ body[i].key.tag # "Computed"

\* C30: on the non-computed keys of a class body key equality is symmetric,
\* and two keys that denote the same name are equal whatever their form
\* (reflexivity included); so in a non-ambient class a bodyless signature
\* followed by a body-bearing member with the identical numeric key has no
\* error when validation is done.
C30_KeyEquality ==
    /\ \A i, j \in 1..Len(body) :
          (HasPlainKey(i) /\ HasPlainKey(j)) =>
              /\ is_prop_name_eq(body[i].key, body[j].key)
                    = is_prop_name_eq(body[j].key, body[i].key)
              /\ NameOf(body[i].key) = NameOf(body[j].key) =>
                    is_prop_name_eq(body[i].key, body[j].key)
    /\ (cpc = "done" /\ ~declare) =>
          \A i \in 1..(Len(body) - 1) :
              (/\ IsSignature(i)
               /\ body[i].key.tag = "Num"
               /\ body[i + 1].kind = "Method"
               /\ body[i + 1].has_body
               /\ body[i + 1].key = body[i].key) => ErrorsIn(i, i + 1) = {}

====
